---------------------------- MODULE Spec2Model ----------------------------
(***************************************************************************)
(* Consensus engine of ez-web3-rpc (src/src/calls.rs): RpcCalls with its   *)
(* shared cooldown table, consensus / bft_consensus rounds running on it,  *)
(* the providers' answers and a millisecond clock.                         *)
(***************************************************************************)
EXTENDS Integers, Sequences, FiniteSets, TLC

\* ------------------------------------------------------------------------
\* Bounds of the model
\* ------------------------------------------------------------------------
\* calls of consensus / bft_consensus started in one behaviour
MaxCalls == 2
\* clock advances in one behaviour
MaxTicks == 1
\* the same two, where two callers share one RpcCalls
MaxCoolCalls == 4
MaxCoolTicks == 1
\* SpecTracker: calls started, clock advances
MaxTrackCalls == 2
MaxTrackTicks == 1
\* SpecProxy: init and try_proxy_request calls started
MaxProxyCalls == 2
\* SpecProbe: init and refresh calls started
MaxProbeCalls == 1
\* SpecLive: calls of any kind started
MaxLiveCalls == 2
\* SpecAbort: calls started
MaxAbortCalls == 1
\* SpecDup: calls started
MaxDupCalls == 1
\* SpecRace: calls started
MaxRaceCalls == 2
\* SpecUrls: calls of init, refresh and try_proxy_request started
MaxUrlCalls == 3
\* SpecBatch: calls of init and try_proxy_request started
MaxBatchCalls == 2
\* SpecEnvelope: calls of init and try_proxy_request started
MaxEnvelopeCalls == 2
\* SpecStrikes: calls started, and clock steps
MaxStrikeCalls == 3
MaxStrikeTicks == 1
\* SpecKey: calls started
MaxKeyCalls == 1
\* SpecWaves: calls started
MaxWaveCalls == 1
\* SpecHealthy: get_first_healthy calls started
MaxHealthyCalls == 2
\* SpecSync: init and refresh calls started
MaxSyncCalls == 2
\* SpecFaults: init and refresh calls started
MaxFaultCalls == 1

\* ------------------------------------------------------------------------
\* f64 arithmetic.  A finite non-negative magnitude is an integer number of
\* units 2^-57 held in three limbs <<l2, l1, l0>> of 20 bits (l2 unbounded):
\* every f64 in [2^-5, 2^13) is such an integer.  Results are rounded to 53
\* significant bits, ties to even, as IEEE-754 binary64 does.
\* ------------------------------------------------------------------------
LimbBase == 2^20
IntUnit == 2^17

RECURSIVE BitLen(_)
BitLen(n) == IF n = 0 THEN 0 ELSE 1 + BitLen(n \div 2)

FNorm(l2, l1, l0) ==
    LET m1 == l1 + (l0 \div LimbBase)
    IN  <<l2 + (m1 \div LimbBase), m1 % LimbBase, l0 % LimbBase>>

FMagLess(a, b) ==
    \/ a[1] < b[1]
    \/ a[1] = b[1] /\ a[2] < b[2]
    \/ a[1] = b[1] /\ a[2] = b[2] /\ a[3] < b[3]

\* a - b for magnitudes a >= b
FMagSub(a, b) ==
    LET b0 == IF a[3] < b[3] THEN 1 ELSE 0
        d0 == a[3] - b[3] + b0 * LimbBase
        b1 == IF a[2] - b0 < b[2] THEN 1 ELSE 0
        d1 == a[2] - b0 - b[2] + b1 * LimbBase
    IN  <<a[1] - b1 - b[1], d1, d0>>

FRound(a) ==
    LET s == BitLen(a[1]) - 13
    IN  IF s <= 0 THEN a
        ELSE LET q == 2^s
                 r == a[3] % q
                 down == a[3] - r
                 up == \/ 2 * r > q
                       \/ 2 * r = q /\ (down \div q) % 2 = 1
             IN  FNorm(a[1], a[2], IF up THEN down + q ELSE down)

F64(neg, mag) == [neg |-> neg, mag |-> mag]

F64Zero == F64(FALSE, <<0, 0, 0>>)

F64IsZero(x) == x.mag = <<0, 0, 0>>

\* the f64 a decimal literal h/100 denotes
F64Lit(h) ==
    CASE h = 0 -> F64(FALSE, <<0, 0, 0>>)
      [] h = 5 -> F64(FALSE, <<6553, 629145, 629146>>)
      [] h = 50 -> F64(FALSE, <<65536, 0, 0>>)
      [] h = 51 -> F64(FALSE, <<66846, 754974, 754976>>)
      [] h = 60 -> F64(FALSE, <<78643, 209715, 209712>>)
      [] h = 66 -> F64(FALSE, <<86507, 545259, 545264>>)
      [] h = 67 -> F64(FALSE, <<87818, 251658, 251664>>)
      [] h = 70 -> F64(FALSE, <<91750, 419430, 419424>>)
      [] h = 75 -> F64(FALSE, <<98304, 0, 0>>)
      [] h = 80 -> F64(FALSE, <<104857, 629145, 629152>>)
      [] h = 90 -> F64(FALSE, <<117964, 838860, 838864>>)
      [] h = 100 -> F64(FALSE, <<131072, 0, 0>>)

\* x - y for y >= 0 and x >= 0
F64Sub(x, y) ==
    IF FMagLess(x.mag, y.mag)
    THEN F64(TRUE, FRound(FMagSub(y.mag, x.mag)))
    ELSE F64(FALSE, FRound(FMagSub(x.mag, y.mag)))

\* x.max(0.0)
F64Max0(x) == IF x.neg THEN F64Zero ELSE x

\* x >= y for y >= 0
F64Geq(x, y) ==
    IF x.neg THEN F64IsZero(x) /\ F64IsZero(y) ELSE ~FMagLess(x.mag, y.mag)

\* (n as f64) * x
F64MulNat(n, x) ==
    F64(x.neg, FRound(FNorm(n * x.mag[1], n * x.mag[2], n * x.mag[3])))

\* x.ceil() as usize (the cast saturates: a negative value gives 0)
F64CeilUsize(x) ==
    IF x.neg THEN 0
    ELSE (x.mag[1] \div IntUnit)
         + (IF x.mag[1] % IntUnit # 0 \/ x.mag[2] # 0 \/ x.mag[3] # 0
            THEN 1 ELSE 0)

\* (n as f64 * t).ceil() as usize
CeilMul(n, t) == F64CeilUsize(F64MulNat(n, t))

\* ------------------------------------------------------------------------
\* Provider catalog: URLs and the handler's RPC list
\* ------------------------------------------------------------------------
Url(scheme, host) == [scheme |-> scheme, host |-> host]

U1 == Url("https", "u1")
U2 == Url("https", "u2")
U3 == Url("https", "u3")
U4 == Url("https", "u4")
H1 == Url("http", "h1")
W1 == Url("wss", "w1")
V1 == Url("ws", "v1")

\* url.starts_with("wss://")
IsWss(url) == url.scheme = "wss"

\* ------------------------------------------------------------------------
\* JSON values and the stable comparison key
\* ------------------------------------------------------------------------
None == [t |-> "None"]
Some(v) == [t |-> "Some", v |-> v]

JStr(s) == [t |-> "String", s |-> s]
JNum(n) == [t |-> "Number", n |-> n]
JArr(a) == [t |-> "Array", a |-> a]
JNull == [t |-> "Null"]
\* an object; members is a sequence of <<key, value>> with distinct keys
JObj(members) == [t |-> "Object", members |-> members]

\* Value::get(key): None on a value that is no object or lacks the key
JGet(val, key) ==
    IF val.t = "Object" /\ \E i \in 1..Len(val.members) : val.members[i][1] = key
    THEN Some((CHOOSE m \in {val.members[i] : i \in 1..Len(val.members)} :
                 m[1] = key)[2])
    ELSE None

\* Value::as_str()
JAsStr(val) == IF val.t = "String" THEN Some(val.s) ELSE None

\* String's Ord on the member keys the model uses
KeyRank(key) ==
    CASE key = "a" -> 1 [] key = "b" -> 2 [] key = "c" -> 3
      [] key = "number" -> 4

\* keys.sort(), carried out on the members
RECURSIVE InsertByKey(_, _)
InsertByKey(sorted, m) ==
    IF sorted = <<>> THEN <<m>>
    ELSE IF KeyRank(sorted[Len(sorted)][1]) <= KeyRank(m[1]) THEN Append(sorted, m)
    ELSE Append(InsertByKey(SubSeq(sorted, 1, Len(sorted) - 1), m),
                sorted[Len(sorted)])

RECURSIVE SortByKey(_, _, _)
SortByKey(members, i, sorted) ==
    IF i > Len(members) THEN sorted
    ELSE SortByKey(members, i + 1, InsertByKey(sorted, members[i]))

\* fault seeded for C29: only the outermost object is sorted
sort_value_shallow(val) ==
    IF val.t = "Object" THEN JObj(SortByKey(val.members, 1, <<>>)) ELSE val

RECURSIVE sort_value(_)
sort_value(val) ==
    CASE val.t = "Object" ->
           LET ms == SortByKey(val.members, 1, <<>>)
           IN  JObj([i \in 1..Len(ms) |-> <<ms[i][1], sort_value(ms[i][2])>>])
      [] val.t = "Array" ->
           JArr([i \in 1..Len(val.a) |-> sort_value(val.a[i])])
      [] OTHER -> val

\* serde_json::to_string
RECURSIVE JsonText(_)
RECURSIVE JsonItems(_, _)
RECURSIVE JsonMembers(_, _)
JsonItems(a, i) ==
    IF i > Len(a) THEN ""
    ELSE (IF i > 1 THEN "," ELSE "") \o JsonText(a[i]) \o JsonItems(a, i + 1)
JsonMembers(ms, i) ==
    IF i > Len(ms) THEN ""
    ELSE (IF i > 1 THEN "," ELSE "") \o "\"" \o ms[i][1] \o "\":"
         \o JsonText(ms[i][2]) \o JsonMembers(ms, i + 1)
JsonText(val) ==
    CASE val.t = "String" -> "\"" \o val.s \o "\""
      [] val.t = "Number" -> ToString(val.n)
      [] val.t = "Array" -> "[" \o JsonItems(val.a, 1) \o "]"
      [] val.t = "Object" -> "{" \o JsonMembers(val.members, 1) \o "}"
      [] val.t = "Null" -> "null"

stable_string(val) ==
    IF val.t = "String" THEN val.s ELSE JsonText(sort_value(val))

\* ------------------------------------------------------------------------
\* What a provider does with one request, and run_request's verdict on it
\* ------------------------------------------------------------------------
\* an HTTP 2xx reply whose body is a JSON-RPC envelope with this result
RespResult(v) == [kind |-> "result", value |-> v]
\* an HTTP 2xx reply whose envelope has no result (a JSON-RPC error)
RespNoResult == [kind |-> "noresult"]
\* an HTTP 2xx reply whose body is no JSON-RPC envelope; detail is serde's text
RespGarbage(detail) == [kind |-> "garbage", detail |-> detail]
\* a reply with a non-success HTTP status
RespStatus(code) == [kind |-> "status", status |-> code]
\* a transport error; detail is reqwest's text
RespTransport(detail) == [kind |-> "transport", detail |-> detail]
\* no reply within timeout_ms
RespTimeout == [kind |-> "timeout"]
\* a reply with success headers whose body never ends: response.json() is
\* awaited outside the timeout, so the request never resolves
RespHangBody == [kind |-> "hangbody"]
\* the HTTP client refuses a URL that is neither http nor https
RespBadScheme == RespTransport(<<"builder error for url">>)

\* whether the client can send to this URL at all
HttpScheme(url) == url.scheme \in {"http", "https"}

\* a spawned request: the task owns its url; resp is what the provider does
Request(url, resp) == [url |-> url, resp |-> resp]

\* error texts are sequences of tokens
ROk(url, v) == [ok |-> TRUE, url |-> url, value |-> v]
RErr(url, text) == [ok |-> FALSE, url |-> url, error |-> text]

run_request(url, resp) ==
    CASE resp.kind = "result" ->
           \* result: Option<Value>: a null result deserializes to None
           IF resp.value = JNull THEN RErr(url, <<"No result in response">>)
           ELSE ROk(url, resp.value)
      [] resp.kind = "noresult" -> RErr(url, <<"No result in response">>)
      [] resp.kind = "garbage" -> RErr(url, <<"JSON parse error: ">> \o resp.detail)
      [] resp.kind = "status" -> RErr(url, <<"HTTP error">>)
      [] resp.kind = "transport" -> RErr(url, <<"Request error: ">> \o resp.detail)
      [] resp.kind = "timeout" -> RErr(url, <<"Timeout">>)

\* Result<T>
Ok(v) == [t |-> "Ok", value |-> v]
Err(kind, text) == [t |-> "Err", kind |-> kind, most_common |-> text]

\* ------------------------------------------------------------------------
\* LatencyRecord and its serde form (types.rs)
\* ------------------------------------------------------------------------
\* a SystemTime is a number of whole seconds since the Unix epoch, negative
\* before it, and the nanoseconds past that second
SystemTime(secs, nanos) == [secs |-> secs, nanos |-> nanos]

LatencyRecord(latency_ms, last_tested, failure_count) ==
    [latency_ms |-> latency_ms, last_tested |-> last_tested,
     failure_count |-> failure_count]

\* an integer as serde_json writes it: its decimal digits
RECURSIVE Digits(_)
Digits(n) == IF n < 10 THEN <<n>> ELSE Append(Digits(n \div 10), n % 10)

\* the integer serde_json reads from decimal digits
RECURSIVE ParseDigits(_, _, _)
ParseDigits(ds, i, acc) ==
    IF i > Len(ds) THEN acc ELSE ParseDigits(ds, i + 1, 10 * acc + ds[i])

\* system_time_serde::serialize
system_time_serialize(time) ==
    IF time.secs < 0
    THEN Err("Custom", "second time provided was later than self")
    ELSE Ok(Digits(time.secs))

\* system_time_serde::deserialize
system_time_deserialize(ds) == Ok(SystemTime(ParseDigits(ds, 1, 0), 0))

\* fault seeded for C31: the two counters change places in the text
to_string_swapped(record) ==
    LET time == system_time_serialize(record.last_tested)
    IN  IF time.t = "Err" THEN time
        ELSE Ok(<<<<"latency_ms", Digits(record.failure_count)>>,
                  <<"last_tested", time.value>>,
                  <<"failure_count", Digits(record.latency_ms)>>>>)

\* serde_json::to_string(&record): the members of the object written, each
\* a key and the digits of its number
to_string(record) ==
    LET time == system_time_serialize(record.last_tested)
    IN  IF time.t = "Err" THEN time
        ELSE Ok(<<<<"latency_ms", Digits(record.latency_ms)>>,
                  <<"last_tested", time.value>>,
                  <<"failure_count", Digits(record.failure_count)>>>>)

\* the digits written for this key
Member(text, key) ==
    (CHOOSE m \in {text[i] : i \in 1..Len(text)} : m[1] = key)[2]

\* serde_json::from_str::<LatencyRecord>(&json)
from_str(text) ==
    LET time == system_time_deserialize(Member(text, "last_tested"))
    IN  IF time.t = "Err" THEN time
        ELSE Ok(LatencyRecord(ParseDigits(Member(text, "latency_ms"), 1, 0),
                              time.value,
                              ParseDigits(Member(text, "failure_count"), 1, 0)))

NoCodec == [pc |-> "idle", record |-> None, json |-> None, back |-> None]

\* error.contains("429")
Contains429(text) == \E i \in 1..Len(text) : text[i] = "429"

\* ------------------------------------------------------------------------
\* State
\* ------------------------------------------------------------------------
VARIABLES
    rpcs,        \* handler.rpcs: the handler's RPC list, fixed at construction
    cooldowns,   \* RpcCalls.cooldowns: url -> CooldownInfo
    clock,       \* Instant::now(), in ms
    ticks,       \* clock advances so far
    ncalls,      \* calls started so far
    call,        \* per task: the frame of its consensus / bft_consensus call
                 \* (cooled: the requests whose failure reached apply_cooldown)
    warned,      \* per url: the last "Cooling down provider" event
    config,      \* handler.config.retry: retry_count
    latencies,   \* handler.latencies: url -> ms
    provider,    \* handler.provider: None or Some(base_url)
    hcall,       \* per task: the frame of its init / refresh call
    probe,       \* the most recent probe cycle: its inputs and what it returned
    proxy,       \* the frame of the caller's try_proxy_request / send_request
                 \* (members: the attempts of the current or last batch;
                 \* sent: the URLs requested so far; failures: the attempts
                 \* that ended in an error; sleeps: the retry sleeps started)
    hooks,       \* the refresh-hook tasks spawned so far
    fh,          \* the frame of the caller's get_first_healthy call (passed:
                 \* per probe made, whether its latency map was non-empty)
    codec        \* a LatencyRecord, the text serde_json::to_string made of
                 \* it, and what serde_json::from_str made of that text

vars == <<rpcs, cooldowns, clock, ticks, ncalls, call, warned,
          config, latencies, provider, hcall, probe, proxy, hooks, fh, codec>>

\* what the consensus engine works on, and what the handler and proxy work on
callVars == <<cooldowns, call, warned>>
handlerVars == <<latencies, provider, hcall, probe, fh>>
proxyVars == <<proxy, hooks>>

Rounds == {1, 2}

EmptyMap == [k \in {} |-> 0]

MapPut(m, k, v) == [x \in DOMAIN m \cup {k} |-> IF x = k THEN v ELSE m[x]]

\* counts.get(key).unwrap_or(&0)
GetOr0(counts, key) == IF key \in DOMAIN counts THEN counts[key] ELSE 0

IdleCall ==
    [pc |-> "idle", op |-> "none",
     quorum_threshold |-> F64Zero, min_threshold |-> F64Zero,
     allow_early_abort |-> FALSE, concurrency |-> 0, cooldown_ms |-> 0,
     now |-> 0, rpc_urls |-> <<>>, index |-> 0, tasks |-> <<>>, reqs |-> <<>>,
     results |-> <<>>, counts |-> EmptyMap, key_to_value |-> EmptyMap,
     aborted |-> FALSE, cooled |-> <<>>, attempt |-> None, curr |-> F64Zero,
     ret |-> None]

\* ConsensusOptions::default()
DefaultConcurrency == 4
DefaultCooldownMs == 30000

\* ------------------------------------------------------------------------
\* Cooldown tracker
\* ------------------------------------------------------------------------
MaxDelayMs == 5 * 60 * 1000

\* ((base_ms as f64) * factor.powi(k)) as u64, capped at MaxDelayMs, for
\* factor = fnum/2 (1.5 = 3/2, 2.0 = 4/2).  The f64 product is exact while
\* it is below the cap; once a partial product reaches the cap every later
\* one does.  num/den is factor^j for the j steps taken so far.
RECURSIVE ScaledDelay(_, _, _, _, _)
ScaledDelay(base_ms, fnum, k, num, den) ==
    IF (base_ms * num) \div den >= MaxDelayMs THEN MaxDelayMs
    ELSE IF k = 0 THEN (base_ms * num) \div den
    ELSE ScaledDelay(base_ms, fnum, k - 1, num * fnum, den * 2)

\* fault seeded for C12: the exponent is strikes, not strikes - 1
CooldownDelayOffByOne(base_ms, strikes, is_rate_limit) ==
    ScaledDelay(base_ms, IF is_rate_limit THEN 4 ELSE 3, strikes, 1, 1)

CooldownDelay(base_ms, strikes, is_rate_limit) ==
    ScaledDelay(base_ms, IF is_rate_limit THEN 4 ELSE 3, strikes - 1, 1, 1)

CooldownInfo(until, strikes) == [until |-> until, strikes |-> strikes]

\* fault seeded for C37: the strikes start again once the window has expired
apply_cooldown_restart(cds, t, url, base_ms, is_rate_limit) ==
    LET strikes == (IF url \in DOMAIN cds /\ cds[url].until > t
                    THEN cds[url].strikes ELSE 0) + 1
        delay == CooldownDelay(base_ms, strikes, is_rate_limit)
    IN  MapPut(cds, url, CooldownInfo(t + delay, strikes))

\* the table after apply_cooldown(url, base_ms, is_rate_limit) at instant t
apply_cooldown(cds, t, url, base_ms, is_rate_limit) ==
    LET strikes == (IF url \in DOMAIN cds THEN cds[url].strikes ELSE 0) + 1
        delay == CooldownDelay(base_ms, strikes, is_rate_limit)
    IN  MapPut(cds, url, CooldownInfo(t + delay, strikes))

\* the tracing::warn! event of that call, with what it replaced
WarnEvent(cds, old, t, url, base_ms, is_rate_limit, cause) ==
    LET strikes == (IF url \in DOMAIN cds THEN cds[url].strikes ELSE 0) + 1
        delay == CooldownDelay(base_ms, strikes, is_rate_limit)
    IN  [strikes |-> strikes, delay_ms |-> delay, base_ms |-> base_ms,
         is_rate_limit |-> is_rate_limit, cause |-> cause, at |-> t,
         prev_until |-> IF url \in DOMAIN cds THEN cds[url].until ELSE 0,
         prev_delay_ms |-> IF url \in DOMAIN old THEN old[url].delay_ms ELSE 0,
         prev_base_ms |-> IF url \in DOMAIN old THEN old[url].base_ms ELSE base_ms]

\* ------------------------------------------------------------------------
\* consensus_attempt
\* ------------------------------------------------------------------------
\* an injected RPC list may be given in any order; shuffle yields any order
Shuffles(s) ==
    { [i \in 1..Len(s) |-> s[f[i]]] :
        f \in { g \in [1..Len(s) -> 1..Len(s)] :
                  \A i, j \in 1..Len(s) : g[i] = g[j] => i = j } }

\* fault seeded for C7: the cooldown test is strict (until < now)
CandidatesStrict(list, cds, now) ==
    SelectSeq(list, LAMBDA url :
        /\ ~IsWss(url)
        /\ (url \in DOMAIN cds => cds[url].until < now))

\* the URLs that pass both filters, in list order
Candidates(list, cds, now) ==
    SelectSeq(list, LAMBDA url :
        /\ ~IsWss(url)
        /\ (url \in DOMAIN cds => cds[url].until <= now))

\* the orders in which a HashMap with these keys may iterate
KeyOrders(keys) ==
    { p \in [1..Cardinality(keys) -> keys] :
        \A i, j \in 1..Cardinality(keys) : p[i] = p[j] => i = j }

\* Iterator::max_by_key over that iteration: the last maximal element
RECURSIVE MaxByKeyFrom(_, _, _, _)
MaxByKeyFrom(counts, order, i, best) ==
    IF i > Len(order) THEN best
    ELSE MaxByKeyFrom(counts, order, i + 1,
                      IF counts[order[i]] >= counts[best] THEN order[i] ELSE best)

MaxByKey(counts, order) == MaxByKeyFrom(counts, order, 1, order[1])

\* fault seeded for C5: allow_early_abort is not consulted
maybe_abort_early_unconditional(allow_early_abort, quorum_threshold, counts, results_len, key) ==
    GetOr0(counts, key) >= CeilMul(results_len, quorum_threshold)

\* fault seeded for C32: the round is never aborted
maybe_abort_early_never(allow_early_abort, quorum_threshold, counts, results_len, key) ==
    FALSE

maybe_abort_early(allow_early_abort, quorum_threshold, counts, results_len, key) ==
    IF ~allow_early_abort THEN FALSE
    ELSE GetOr0(counts, key) >= CeilMul(results_len, quorum_threshold)

AttemptResult(success, value, c, most_common_key) ==
    [success |-> success, value |-> value, counts |-> c.counts,
     results |-> c.results, most_common_key |-> most_common_key,
     key_to_value |-> c.key_to_value]

\* fault seeded for C30: the mode count must exceed the final quorum
FinishAttemptStrict(c, order) ==
    IF c.results = <<>> THEN AttemptResult(FALSE, None, c, None)
    ELSE LET final_quorum == CeilMul(Len(c.results), c.quorum_threshold)
             key == MaxByKey(c.counts, order)
         IN  IF GetOr0(c.counts, key) > final_quorum
             THEN AttemptResult(TRUE, Some(c.key_to_value[key]), c, Some(key))
             ELSE AttemptResult(FALSE, None, c, Some(key))

\* the ConsensusAttemptResult built from the tally, with the map iterating
\* in this order
FinishAttempt(c, order) ==
    IF c.results = <<>> THEN AttemptResult(FALSE, None, c, None)
    ELSE LET final_quorum == CeilMul(Len(c.results), c.quorum_threshold)
             key == MaxByKey(c.counts, order)
         IN  IF GetOr0(c.counts, key) >= final_quorum
             THEN AttemptResult(TRUE, Some(c.key_to_value[key]), c, Some(key))
             ELSE AttemptResult(FALSE, None, c, Some(key))

\* what consensus() makes of the attempt
ConsensusReturn(attempt) ==
    IF attempt.success /\ attempt.value # None
    THEN Ok(attempt.value.v)
    ELSE Err("ConsensusFailure",
             IF attempt.most_common_key # None
             THEN attempt.most_common_key.v ELSE "n/a")

NoResponsesText == "No successful RPC responses for BFT consensus"
BftExhaustedText == "Could not reach BFT consensus down to minimum threshold"
OnlyOneText == "Only one RPC available, could not reach consensus"

\* ------------------------------------------------------------------------
\* Probe cycle (performance/measure.rs)
\* ------------------------------------------------------------------------
\* strings that are inspected by prefix are sequences of chunks
StartsWith(str, prefix) ==
    Len(str) >= Len(prefix) /\ SubSeq(str, 1, Len(prefix)) = prefix

Permit2Prefix == <<"0x6040", "60808152600">>

\* fault seeded for C20: any string passes for the bytecode
is_permit2_bytecode_valid_any(bytecode) == bytecode # None

is_permit2_bytecode_valid(bytecode) ==
    IF bytecode # None THEN StartsWith(bytecode.v, Permit2Prefix) ELSE FALSE

\* what post_request returns (always Ok) for a provider's answer that took ms
post_request(resp, ms) ==
    CASE resp.kind = "result" ->
           [has_result |-> TRUE, data |-> Some(resp), duration |-> ms]
      [] resp.kind = "noresult" ->
           [has_result |-> FALSE, data |-> Some(resp), duration |-> ms]
      [] OTHER -> [has_result |-> FALSE, data |-> None, duration |-> ms]

\* json_data.get("result")
BodyResult(data) ==
    IF data # None /\ data.v.kind = "result" THEN Some(data.v.value) ELSE None

\* one endpoint's answers to the two probe calls
ProbeAnswer(block, code, block_ms, code_ms) ==
    [block |-> block, code |-> code, block_ms |-> block_ms, code_ms |-> code_ms]

RpcCheckResult(url, success, duration, block_number, bytecode_ok) ==
    [url |-> url, success |-> success, duration |-> duration,
     block_number |-> block_number, bytecode_ok |-> bytecode_ok]

\* the per-endpoint task of measure_rpcs
CheckRpc(url, ans) ==
    LET block_result == post_request(ans.block, ans.block_ms)
        code_result == post_request(ans.code, ans.code_ms)
        bres == BodyResult(block_result.data)
        number == IF bres # None THEN JGet(bres.v, "number") ELSE None
        block_number == IF number # None THEN JAsStr(number.v) ELSE None
        cres == BodyResult(code_result.data)
        bytecode == IF cres # None THEN JAsStr(cres.v) ELSE None
        bytecode_ok == is_permit2_bytecode_valid(bytecode)
    IN  RpcCheckResult(url,
                       block_result.has_result /\ code_result.has_result
                           /\ bytecode_ok,
                       IF block_result.duration >= code_result.duration
                       THEN block_result.duration ELSE code_result.duration,
                       block_number, bytecode_ok)

\* the tally of reported block numbers over all check results
RECURSIVE BlockCounts(_, _, _)
BlockCounts(results, i, counts) ==
    IF i > Len(results) THEN counts
    ELSE BlockCounts(results, i + 1,
             IF results[i].block_number # None
             THEN MapPut(counts, results[i].block_number.v,
                         GetOr0(counts, results[i].block_number.v) + 1)
             ELSE counts)

\* the latency map built from the check results
RECURSIVE LatencyFold(_, _, _, _)
LatencyFold(results, i, most_common, lat) ==
    IF i > Len(results) THEN lat
    ELSE LET res == results[i]
             skip == \/ ~res.success
                     \/ /\ res.block_number # None /\ most_common # None
                        /\ res.block_number.v # most_common.v
         IN  LatencyFold(results, i + 1, most_common,
                         IF skip THEN lat ELSE MapPut(lat, res.url, res.duration))

\* fault seeded for C24: a failed endpoint fails the whole cycle
measure_rpcs_fail_fast(list, answers, order) ==
    LET results == [i \in 1..Len(list) |-> CheckRpc(list[i], answers[i])]
        counts == BlockCounts(results, 1, EmptyMap)
        most_common == IF DOMAIN counts = {} THEN None
                       ELSE Some(MaxByKey(counts, order))
    IN  IF \E i \in 1..Len(results) : ~results[i].success
        THEN Err("Network", "")
        ELSE Ok([latencies |-> LatencyFold(results, 1, most_common, EmptyMap),
                 results |-> results])

\* measure_rpcs on these RPCs, with the block-number map iterating in order
measure_rpcs(list, answers, order) ==
    LET results == [i \in 1..Len(list) |-> CheckRpc(list[i], answers[i])]
        counts == BlockCounts(results, 1, EmptyMap)
        most_common == IF DOMAIN counts = {} THEN None
                       ELSE Some(MaxByKey(counts, order))
    IN  Ok([latencies |-> LatencyFold(results, 1, most_common, EmptyMap),
            results |-> results])

\* the orders in which measure_rpcs may find its block-number map iterating
BlockOrders(list, answers) ==
    KeyOrders(DOMAIN BlockCounts(
        [i \in 1..Len(list) |-> CheckRpc(list[i], answers[i])], 1, EmptyMap))

\* the step by which bft_consensus lowers the threshold
RelaxStepLit == F64Lit(5)

\* consensus / bft_consensus is called: options are read and now is sampled
Call(r, op, qt, mt, concurrency, cooldown_ms) ==
    /\ call[r].pc = "idle"
    /\ ncalls' = ncalls + 1
    /\ call' = [call EXCEPT ![r] =
                  [IdleCall EXCEPT !.pc = "read", !.op = op,
                                   !.quorum_threshold = qt, !.min_threshold = mt,
                                   !.allow_early_abort = (op = "consensus"),
                                   !.concurrency = concurrency,
                                   !.cooldown_ms = cooldown_ms,
                                   !.now = clock]]
    /\ UNCHANGED <<rpcs, codec, cooldowns, clock, ticks, warned,
                 config, handlerVars, proxyVars>>

\* the cooldown table is read, the candidate list formed and shuffled
FormCandidates(r) ==
    /\ call[r].pc = "read"
    /\ LET rpc_urls == Candidates(rpcs, cooldowns, call[r].now)
       IN  IF rpc_urls = <<>>
           THEN call' = [call EXCEPT ![r].pc = "done",
                                     ![r].rpc_urls = rpc_urls,
                                     ![r].ret = Err("NoAvailableRpcs", "")]
           ELSE IF Len(rpc_urls) = 1
           THEN call' = [call EXCEPT ![r].pc = "done",
                                     ![r].rpc_urls = rpc_urls,
                                     ![r].ret = Err("ConsensusFailure", OnlyOneText)]
           ELSE \E shuffled \in Shuffles(rpc_urls) :
                  call' = [call EXCEPT ![r].pc = "loop",
                                       ![r].rpc_urls = shuffled]
    /\ UNCHANGED <<rpcs, codec, cooldowns, clock, ticks, ncalls, warned,
                 config, handlerVars, proxyVars>>

\* fault seeded for C27: no semaphore, a permit is always at hand
PermitsFreeAlways(concurrency, tasks) == 1

\* the semaphore's free permits while the loop runs: each spawned task holds
\* one until it completes, and the tasks of earlier waves have completed
PermitsFree(concurrency, tasks) == concurrency - Len(tasks)

\* one pass of the dispatch loop up to the drain: a permit is acquired and
\* the request to rpc_urls[index] is spawned; resp is the provider's answer
Dispatch(r, resp) ==
    LET c == call[r] IN
    /\ c.pc = "loop"
    /\ c.index < Len(c.rpc_urls) /\ ~c.aborted
    /\ PermitsFree(c.concurrency, c.tasks) > 0
    /\ HttpScheme(c.rpc_urls[c.index + 1]) <=> resp # RespBadScheme
    /\ LET url == c.rpc_urls[c.index + 1]
           index == c.index + 1
           tasks == Append(c.tasks, index)
       IN  call' = [call EXCEPT
                      ![r].index = index,
                      ![r].tasks = tasks,
                      ![r].reqs = Append(c.reqs, Request(url, resp)),
                      ![r].pc = IF Len(tasks) >= c.concurrency
                                   \/ index >= Len(c.rpc_urls)
                                THEN "drain" ELSE "loop"]
    /\ UNCHANGED <<rpcs, codec, cooldowns, clock, ticks, ncalls, warned,
                 config, handlerVars, proxyVars>>

\* where the loop goes once the drain has ended
AfterDrain(c, index, aborted) ==
    IF index < Len(c.rpc_urls) /\ ~aborted THEN "loop" ELSE "tally"

\* the drain awaits its next task and folds the outcome
Fold(r) ==
    LET c == call[r]
        i == Head(c.tasks)
        out == run_request(c.reqs[i].url, c.reqs[i].resp)
    IN
    /\ c.pc = "drain"
    /\ c.tasks # <<>>
    /\ c.reqs[i].resp # RespHangBody
    /\ IF out.ok
       THEN LET key == stable_string(out.value)
                results == Append(c.results, out.value)
                counts == MapPut(c.counts, key, GetOr0(c.counts, key) + 1)
                aborted == maybe_abort_early(c.allow_early_abort,
                                             c.quorum_threshold, counts,
                                             Len(results), key)
                tasks == IF aborted THEN <<>> ELSE Tail(c.tasks)
            IN  /\ call' = [call EXCEPT
                              ![r].results = results,
                              ![r].counts = counts,
                              ![r].key_to_value = MapPut(c.key_to_value, key, out.value),
                              ![r].aborted = aborted,
                              ![r].tasks = tasks,
                              ![r].pc = IF tasks = <<>>
                                        THEN AfterDrain(c, c.index, aborted)
                                        ELSE "drain"]
                /\ UNCHANGED <<cooldowns, warned>>
       ELSE LET is_rate_limit == Contains429(out.error)
            IN  /\ cooldowns' = apply_cooldown(cooldowns, clock, out.url,
                                               c.cooldown_ms, is_rate_limit)
                /\ warned' = MapPut(warned, out.url,
                                    WarnEvent(cooldowns, warned, clock, out.url,
                                              c.cooldown_ms, is_rate_limit,
                                              c.reqs[i].resp))
                /\ call' = [call EXCEPT
                              ![r].tasks = Tail(c.tasks),
                              ![r].cooled = Append(c.cooled, i),
                              ![r].pc = IF Tail(c.tasks) = <<>>
                                        THEN AfterDrain(c, c.index, c.aborted)
                                        ELSE "drain"]
    /\ UNCHANGED <<rpcs, codec, clock, ticks, ncalls,
                 config, handlerVars, proxyVars>>

\* the attempt's result is built and handed to consensus / bft_consensus,
\* which returns or starts lowering the threshold
Tally(r) ==
    LET c == call[r] IN
    /\ c.pc = "tally"
    /\ \E order \in KeyOrders(DOMAIN c.counts) :
         LET attempt == FinishAttempt(c, order) IN
         IF c.op = "consensus"
         THEN call' = [call EXCEPT ![r].attempt = attempt, ![r].pc = "done",
                                   ![r].ret = ConsensusReturn(attempt)]
         ELSE IF attempt.success /\ attempt.value # None
         THEN call' = [call EXCEPT ![r].attempt = attempt, ![r].pc = "done",
                                   ![r].ret = Ok(attempt.value.v)]
         ELSE IF attempt.results = <<>>
         THEN call' = [call EXCEPT ![r].attempt = attempt, ![r].pc = "done",
                                   ![r].ret = Err("ConsensusFailure", NoResponsesText)]
         ELSE call' = [call EXCEPT ![r].attempt = attempt, ![r].pc = "relax",
                                   ![r].curr = F64Sub(c.quorum_threshold, RelaxStepLit)]
    /\ UNCHANGED <<rpcs, codec, cooldowns, clock, ticks, ncalls, warned,
                 config, handlerVars, proxyVars>>

\* one test of the while condition and, when it holds, one loop body
Relax(r) ==
    LET c == call[r]
        a == c.attempt
        needed == CeilMul(Len(a.results), c.curr)
    IN
    /\ c.pc = "relax"
    /\ IF ~F64Geq(c.curr, c.min_threshold) \/ needed = 0
       THEN call' = [call EXCEPT ![r].pc = "done",
                                 ![r].ret = Err("ConsensusFailure", BftExhaustedText)]
       ELSE IF a.most_common_key # None
               /\ GetOr0(a.counts, a.most_common_key.v) >= needed
       THEN call' = [call EXCEPT ![r].pc = "done",
                                 ![r].ret = Ok(a.key_to_value[a.most_common_key.v])]
       ELSE call' = [call EXCEPT ![r].curr = F64Max0(F64Sub(c.curr, RelaxStepLit))]
    /\ UNCHANGED <<rpcs, codec, cooldowns, clock, ticks, ncalls, warned,
                 config, handlerVars, proxyVars>>

\* the caller takes the result; the task is free for its next call
Return(r) ==
    /\ call[r].pc = "done"
    /\ call' = [call EXCEPT ![r] = IdleCall]
    /\ UNCHANGED <<rpcs, codec, cooldowns, clock, ticks, ncalls, warned,
                 config, handlerVars, proxyVars>>

\* time passes
Tick(d) ==
    /\ ticks' = ticks + 1
    /\ clock' = clock + d
    /\ UNCHANGED <<rpcs, codec, cooldowns, ncalls, call, warned,
                 config, handlerVars, proxyVars>>

\* ------------------------------------------------------------------------
\* Handler: init and refresh with the Fastest strategy (handler.rs)
\* ------------------------------------------------------------------------
HCallers == {1, 2}

IdleH == [pc |-> "idle", op |-> "none", fastest |-> None, lat |-> EmptyMap,
          ret |-> None]

NoProbe == [list |-> <<>>, answers |-> <<>>, ret |-> None,
            latencies |-> EmptyMap, results |-> <<>>]

\* the record of a probe cycle: its inputs, what measure_rpcs returned, and
\* the map and the check results of an Ok
ProbeRecord(list, answers, m) ==
    [list |-> list, answers |-> answers, ret |-> m,
     latencies |-> IF m.t = "Ok" THEN m.value.latencies ELSE EmptyMap,
     results |-> IF m.t = "Ok" THEN m.value.results ELSE <<>>]

\* Iterator::min_by_key over that iteration: the first minimal element
RECURSIVE MinByKeyFrom(_, _, _, _)
MinByKeyFrom(lat, order, i, best) ==
    IF i > Len(order) THEN best
    ELSE MinByKeyFrom(lat, order, i + 1,
                      IF lat[order[i]] < lat[best] THEN order[i] ELSE best)

MinByKey(lat, order) ==
    IF order = <<>> THEN None ELSE Some(MinByKeyFrom(lat, order, 1, order[1]))

\* pick_fastest on a map that iterates in this order
pick_fastest(lat, order) == MinByKey(lat, order)

\* what the client makes of a probe of a URL that is neither http nor https
BadSchemeAnswer == [block |-> RespBadScheme, code |-> RespBadScheme,
                    block_ms |-> 0, code_ms |-> 0]

\* the answers the endpoints of list may give to one probe cycle, where
\* answersOf[url] is what the endpoint at url may do
ProbeAnswersFor(list, answersOf) ==
    { a \in [1..Len(list) ->
               UNION {answersOf[url] : url \in DOMAIN answersOf}
                   \cup {BadSchemeAnswer}] :
        \A i \in 1..Len(list) :
            IF HttpScheme(list[i]) THEN a[i] \in answersOf[list[i]]
            ELSE a[i] = BadSchemeAnswer }

\* init() or refresh() is called
HStart(h, op) ==
    /\ hcall[h].pc = "idle"
    /\ ncalls' = ncalls + 1
    /\ hcall' = [hcall EXCEPT ![h] = [IdleH EXCEPT !.pc = "probe", !.op = op]]
    /\ UNCHANGED <<rpcs, codec, clock, ticks, callVars, config, latencies, provider,
                   probe, proxyVars, fh>>

\* get_fastest returns: the probe cycle has run over handler.rpcs (`?`
\* hands an error of measure_rpcs on to the caller of init / refresh)
HProbe(h, answers) ==
    /\ hcall[h].pc = "probe"
    /\ \E order \in BlockOrders(rpcs, answers) :
         LET m == measure_rpcs(rpcs, answers, order) IN
         /\ probe' = ProbeRecord(rpcs, answers, m)
         /\ IF m.t = "Ok"
            THEN \E lorder \in KeyOrders(DOMAIN m.value.latencies) :
                   hcall' = [hcall EXCEPT
                               ![h].pc = "apply",
                               ![h].fastest = MinByKey(m.value.latencies, lorder),
                               ![h].lat = m.value.latencies]
            ELSE hcall' = [hcall EXCEPT ![h].pc = "done", ![h].ret = m]
    /\ UNCHANGED <<rpcs, codec, clock, ticks, ncalls, callVars, config, latencies,
                   provider, proxyVars, fh>>

\* fault seeded for C35: the latency map is replaced whatever the probe found
HApplyAlways(h) ==
    LET c == hcall[h] IN
    /\ c.pc = "apply"
    /\ latencies' = c.lat
    /\ IF c.fastest # None
       THEN hcall' = [hcall EXCEPT ![h].pc = "build"]
       ELSE hcall' = [hcall EXCEPT
                        ![h].pc = "done",
                        ![h].ret = IF c.op = "init"
                                   THEN Err("NoAvailableRpcs", "")
                                   ELSE Ok("unit")]
    /\ UNCHANGED <<rpcs, codec, clock, ticks, ncalls, callVars, config, provider,
                   probe, proxyVars, fh>>

\* `if let Some(fastest_url) = fastest`: the latency map is replaced, or the
\* call ends (init with NoAvailableRpcs, refresh with Ok)
HApply(h) ==
    LET c == hcall[h] IN
    /\ c.pc = "apply"
    /\ IF c.fastest # None
       THEN /\ latencies' = c.lat
            /\ hcall' = [hcall EXCEPT ![h].pc = "build"]
       ELSE /\ hcall' = [hcall EXCEPT
                           ![h].pc = "done",
                           ![h].ret = IF c.op = "init"
                                      THEN Err("NoAvailableRpcs", "")
                                      ELSE Ok("unit")]
            /\ UNCHANGED latencies
    /\ UNCHANGED <<rpcs, codec, clock, ticks, ncalls, callVars, config, provider,
                   probe, proxyVars, fh>>

\* build_provider, and the provider is replaced
HSetProvider(h) ==
    /\ hcall[h].pc = "build"
    /\ provider' = Some(hcall[h].fastest.v)
    /\ hcall' = [hcall EXCEPT ![h].pc = "done", ![h].ret = Ok("unit")]
    /\ UNCHANGED <<rpcs, codec, clock, ticks, ncalls, callVars, config, latencies,
                   probe, proxyVars, fh>>

HReturn(h) ==
    /\ hcall[h].pc = "done"
    /\ hcall' = [hcall EXCEPT ![h] = IdleH]
    /\ UNCHANGED <<rpcs, codec, clock, ticks, ncalls, callVars, config, latencies,
                   provider, probe, proxyVars, fh>>

\* ------------------------------------------------------------------------
\* get_first_healthy (strategy/get_first_healthy.rs)
\* ------------------------------------------------------------------------
IdleFH == [pc |-> "idle", http |-> None, shuffled |-> <<>>, index |-> 0,
           in_flight |-> 0, passed |-> <<>>, ret |-> None]

\* fault seeded for C26: http:// URLs pass whatever the option says
FilteredRpcsAnyHttp(list, http) ==
    SelectSeq(list, LAMBDA url : url.scheme \in {"https", "http"})

\* filtered_rpcs, with http_allowed = http.unwrap_or(false)
FilteredRpcs(list, http) ==
    LET http_allowed == IF http # None THEN http.v ELSE FALSE
    IN  SelectSeq(list, LAMBDA url :
            url.scheme = "https" \/ (http_allowed /\ url.scheme = "http"))

\* get_first_healthy is called: the list is filtered and shuffled
FHStart(http) ==
    /\ fh.pc = "idle"
    /\ ncalls' = ncalls + 1
    /\ LET filtered_rpcs == FilteredRpcs(rpcs, http)
       IN  IF filtered_rpcs = <<>>
           THEN fh' = [IdleFH EXCEPT !.pc = "done", !.http = http,
                                     !.ret = Ok(None)]
           ELSE \E shuffled \in Shuffles(filtered_rpcs) :
                  fh' = [IdleFH EXCEPT !.pc = "next", !.http = http,
                                       !.shuffled = shuffled]
    /\ UNCHANGED <<rpcs, codec, clock, ticks, callVars, config, latencies, provider,
                   hcall, probe, proxyVars>>

\* the loop takes its next RPC and starts a probe cycle on it alone, or ends
FHNext ==
    /\ fh.pc = "next"
    /\ IF fh.index < Len(fh.shuffled)
       THEN fh' = [fh EXCEPT !.pc = "probing", !.index = fh.index + 1,
                             !.in_flight = fh.in_flight + 1]
       ELSE fh' = [fh EXCEPT !.pc = "done", !.ret = Ok(None)]
    /\ UNCHANGED <<rpcs, codec, clock, ticks, ncalls, callVars, config, latencies,
                   provider, hcall, probe, proxyVars>>

\* measure_rpcs(&single_rpc) returns; ans is what the endpoint did
FHProbed(ans) ==
    LET rpc == fh.shuffled[fh.index] IN
    /\ fh.pc = "probing"
    /\ \E order \in BlockOrders(<<rpc>>, <<ans>>) :
         LET m == measure_rpcs(<<rpc>>, <<ans>>, order)
             healthy == m.t = "Ok" /\ DOMAIN m.value.latencies # {}
         IN  fh' = [fh EXCEPT
                      !.in_flight = fh.in_flight - 1,
                      !.passed = Append(fh.passed, healthy),
                      !.pc = IF healthy THEN "done" ELSE "next",
                      !.ret = IF healthy THEN Ok(Some(rpc)) ELSE None]
    /\ UNCHANGED <<rpcs, codec, clock, ticks, ncalls, callVars, config, latencies,
                   provider, hcall, probe, proxyVars>>

\* the caller takes the result
FHReturn ==
    /\ fh.pc = "done"
    /\ fh' = IdleFH
    /\ UNCHANGED <<rpcs, codec, clock, ticks, ncalls, callVars, config, latencies,
                   provider, hcall, probe, proxyVars>>

\* ------------------------------------------------------------------------
\* A record is written as JSON and read back
\* ------------------------------------------------------------------------
Serialize(record) ==
    /\ codec.pc = "idle"
    /\ codec' = [pc |-> "written", record |-> Some(record),
                 json |-> to_string(record), back |-> None]
    /\ UNCHANGED <<rpcs, clock, ticks, ncalls, callVars, config, latencies,
                   provider, hcall, probe, proxyVars, fh>>

Deserialize ==
    /\ codec.pc = "written"
    /\ codec.json.t = "Ok"
    /\ codec' = [codec EXCEPT !.pc = "read", !.back = from_str(codec.json.value)]
    /\ UNCHANGED <<rpcs, clock, ticks, ncalls, callVars, config, latencies,
                   provider, hcall, probe, proxyVars, fh>>

\* the record and its text are dropped
Forget ==
    /\ codec.pc \in {"written", "read"}
    /\ codec' = NoCodec
    /\ UNCHANGED <<rpcs, clock, ticks, ncalls, callVars, config, latencies,
                   provider, hcall, probe, proxyVars, fh>>

\* ------------------------------------------------------------------------
\* Retrying proxy (provider/retry_proxy.rs)
\* ------------------------------------------------------------------------
\* ProxySettings::default()
DefaultRetryCount == 3

\* fault seeded for C16: batches of four
BatchSizeFour == 2 + 2

\* urls.chunks(3)
BatchSize == 3

IdleProxy ==
    [pc |-> "idle", base_url |-> None, urls |-> <<>>, loops |-> 0, chunk |-> 0,
     members |-> <<>>, finished |-> <<>>, sent |-> <<>>, failures |-> 0,
     sleeps |-> 0, spawned |-> 0, ret |-> None]

\* ordered.sort_by_key(latency): a stable sort of the map's iteration order
RECURSIVE InsertByLatency(_, _, _)
InsertByLatency(sorted, url, lat) ==
    IF sorted = <<>> THEN <<url>>
    ELSE IF lat[sorted[Len(sorted)]] <= lat[url] THEN Append(sorted, url)
    ELSE Append(InsertByLatency(SubSeq(sorted, 1, Len(sorted) - 1), url, lat),
                sorted[Len(sorted)])

RECURSIVE SortByLatency(_, _, _, _)
SortByLatency(order, i, lat, sorted) ==
    IF i > Len(order) THEN sorted
    ELSE SortByLatency(order, i + 1, lat, InsertByLatency(sorted, order[i], lat))

\* the closure get_ordered_urls built by build_provider
get_ordered_urls(lat, order) == SortByLatency(order, 1, lat, <<>>)

\* fault seeded for C36: the base URL is put first whatever the list holds
SendUrlsBaseFirst(base_url, ordered_urls) ==
    <<base_url>> \o ordered_urls

\* the URL list of a send_request: the base URL is put first when it is absent
SendUrls(base_url, ordered_urls) ==
    IF \E i \in 1..Len(ordered_urls) : ordered_urls[i] = base_url
    THEN ordered_urls ELSE <<base_url>> \o ordered_urls

\* urls.chunks(3)
Chunks(urls) ==
    [k \in 1..((Len(urls) + BatchSize - 1) \div BatchSize) |->
        SubSeq(urls, BatchSize * (k - 1) + 1,
               IF BatchSize * k < Len(urls) THEN BatchSize * k ELSE Len(urls))]

\* fault seeded for C15: every failed batch is taken for the last one
is_last_batch_always(urls, k) == TRUE

\* chunk.len() < 3 || chunk.as_ptr() == urls.chunks(3).last().unwrap().as_ptr()
is_last_batch(urls, k) ==
    Len(Chunks(urls)[k]) < BatchSize \/ k = Len(Chunks(urls))

\* what attempt_rpc returns once the endpoint's answer is in
\* fault seeded for C38: an envelope without a result is an error
attempt_rpc_result_only(url, resp) ==
    CASE resp.kind = "result" -> Ok(resp)
      [] resp.kind = "noresult" -> Err("JsonRpc", url)
      [] resp.kind = "garbage" -> Err("Network", resp.detail)
      [] resp.kind = "status" -> Err("JsonRpc", url)
      [] resp.kind = "transport" -> Err("Network", resp.detail)
      [] resp.kind = "timeout" -> Err("TimeoutError", "deadline has elapsed")

attempt_rpc(url, resp) ==
    CASE resp.kind \in {"result", "noresult"} -> Ok(resp)
      [] resp.kind = "garbage" -> Err("Network", resp.detail)
      [] resp.kind = "status" -> Err("JsonRpc", url)
      [] resp.kind = "transport" -> Err("Network", resp.detail)
      [] resp.kind = "timeout" -> Err("TimeoutError", "deadline has elapsed")

\* join_all(tasks) resolves when every member has
JoinReady(members) == \A i \in 1..Len(members) : members[i].done

\* fault seeded for C14: only the first member's result is looked at
FirstOkHeadOnly(outcomes) ==
    IF outcomes # <<>> /\ outcomes[1].t = "Ok" THEN 1 ELSE 0

\* fault seeded for C40: the last Ok of the batch is taken
FirstOkLast(outcomes) ==
    IF \E i \in 1..Len(outcomes) : outcomes[i].t = "Ok"
    THEN CHOOSE i \in 1..Len(outcomes) :
            /\ outcomes[i].t = "Ok"
            /\ \A j \in (i + 1)..Len(outcomes) : outcomes[j].t # "Ok"
    ELSE 0

\* the index of the first Ok in the results of join_all, 0 when there is none
FirstOk(outcomes) ==
    IF \E i \in 1..Len(outcomes) : outcomes[i].t = "Ok"
    THEN CHOOSE i \in 1..Len(outcomes) :
            /\ outcomes[i].t = "Ok"
            /\ \A j \in 1..(i - 1) : outcomes[j].t # "Ok"
    ELSE 0

\* fault seeded for C18: the last member's own error is handed on
race_batch_last_error(outcomes) ==
    IF FirstOk(outcomes) # 0 THEN outcomes[FirstOk(outcomes)]
    ELSE outcomes[Len(outcomes)]

\* what race_batch returns for the results of join_all
race_batch(outcomes) ==
    IF FirstOk(outcomes) # 0 THEN outcomes[FirstOk(outcomes)]
    ELSE Err("AllEndpointsFailed", "")

\* fault seeded for C17: nothing is spawned
SpawnNothing(hs) == hs

\* tokio::spawn of the refresh hook
SpawnRefresh(hs) == Append(hs, "running")

\* try_proxy_request: get_provider, then send_request up to the retry loop
SendStart ==
    /\ proxy.pc = "idle"
    /\ ncalls' = ncalls + 1
    /\ IF provider = None
       THEN proxy' = [IdleProxy EXCEPT !.pc = "done",
                                       !.ret = Err("NoAvailableRpcs", "")]
       ELSE \E order \in KeyOrders(DOMAIN latencies) :
              LET urls == SendUrls(provider.v, get_ordered_urls(latencies, order))
                  loops == config.retry_count
              IN  proxy' =
                    IF loops > 0
                    THEN [IdleProxy EXCEPT !.pc = "batch", !.base_url = provider,
                                           !.urls = urls, !.loops = loops,
                                           !.chunk = 1]
                    ELSE [IdleProxy EXCEPT !.pc = "done", !.base_url = provider,
                                           !.urls = urls,
                                           !.ret = Err("AllEndpointsFailed", "")]
    /\ UNCHANGED <<rpcs, codec, clock, ticks, callVars, config, handlerVars, hooks>>

\* race_batch starts one attempt_rpc per URL of the chunk; resps is what the
\* endpoints will do
StartBatch(resps) ==
    LET chunk == Chunks(proxy.urls)[proxy.chunk] IN
    /\ proxy.pc = "batch"
    /\ DOMAIN resps = 1..Len(chunk)
    /\ proxy' = [proxy EXCEPT
                   !.pc = "join",
                   !.members = [i \in 1..Len(chunk) |->
                                  [url |-> chunk[i], resp |-> resps[i],
                                   done |-> FALSE]],
                   !.finished = <<>>,
                   !.sent = proxy.sent \o chunk]
    /\ UNCHANGED <<rpcs, codec, clock, ticks, ncalls, callVars, config, handlerVars,
                   hooks>>

\* one attempt_rpc resolves: the answer is in, or its timeout fired;
\* finished lists the members of the batch in the order they resolved
MemberDone(i) ==
    /\ proxy.pc = "join"
    /\ i \in 1..Len(proxy.members)
    /\ ~proxy.members[i].done
    /\ proxy.members[i].resp # RespHangBody
    /\ proxy' = [proxy EXCEPT !.members[i].done = TRUE,
                              !.finished = Append(proxy.finished, i)]
    /\ UNCHANGED <<rpcs, codec, clock, ticks, ncalls, callVars, config, handlerVars,
                   hooks>>

\* join_all resolves and send_request acts on what race_batch returns
JoinAll ==
    LET outcomes == [i \in 1..Len(proxy.members) |->
                       attempt_rpc(proxy.members[i].url, proxy.members[i].resp)]
        batch_result == race_batch(outcomes)
        failures == proxy.failures
                      + Cardinality({i \in 1..Len(outcomes) : outcomes[i].t = "Err"})
    IN
    /\ proxy.pc = "join"
    /\ JoinReady(proxy.members)
    /\ IF batch_result.t = "Ok"
       THEN /\ hooks' = SpawnRefresh(hooks)
            /\ proxy' = [proxy EXCEPT !.pc = "done", !.failures = failures,
                                      !.spawned = proxy.spawned
                                                    + Len(hooks') - Len(hooks),
                                      !.ret = batch_result]
       ELSE /\ UNCHANGED hooks
            /\ IF proxy.loops = 1 /\ is_last_batch(proxy.urls, proxy.chunk)
               THEN proxy' = [proxy EXCEPT !.pc = "done", !.failures = failures,
                                           !.ret = batch_result]
               ELSE proxy' = [proxy EXCEPT !.pc = "sleep", !.members = <<>>,
                                           !.failures = failures,
                                           !.sleeps = proxy.sleeps + 1]
    /\ UNCHANGED <<rpcs, codec, clock, ticks, ncalls, callVars, config, handlerVars>>

\* sleep(retry_delay) is over: the next chunk, or the next pass
SleepDone ==
    /\ proxy.pc = "sleep"
    /\ IF proxy.chunk < Len(Chunks(proxy.urls))
       THEN proxy' = [proxy EXCEPT !.pc = "batch", !.chunk = proxy.chunk + 1]
       ELSE IF proxy.loops - 1 > 0
       THEN proxy' = [proxy EXCEPT !.pc = "batch", !.chunk = 1,
                                   !.loops = proxy.loops - 1]
       ELSE proxy' = [proxy EXCEPT !.pc = "done", !.loops = 0,
                                   !.ret = Err("AllEndpointsFailed", "")]
    /\ UNCHANGED <<rpcs, codec, clock, ticks, ncalls, callVars, config, handlerVars,
                   hooks>>

\* the caller takes the result
ProxyReturn ==
    /\ proxy.pc = "done"
    /\ proxy' = IdleProxy
    /\ UNCHANGED <<rpcs, codec, clock, ticks, ncalls, callVars, config, handlerVars,
                   hooks>>

\* a spawned refresh hook ends, with Ok or with an error
HookEnd(k, outcome) ==
    /\ k \in 1..Len(hooks)
    /\ hooks[k] = "running"
    /\ hooks' = [hooks EXCEPT ![k] = outcome]
    /\ UNCHANGED <<rpcs, codec, clock, ticks, ncalls, callVars, config, handlerVars,
                   proxy>>

\* ------------------------------------------------------------------------
\* Specifications
\* ------------------------------------------------------------------------
\* an entry of the injected list or of the catalog (types.rs Rpc): its URL
\* and its optional tracking class
Rpc(url, tracking) == [url |-> url, tracking |-> tracking]

\* the handler's RPC list (select_base_rpc_set.rs 3-27): the injected
\* entries, then the catalog's entries that the tracking preference admits;
\* the consensus engine reads the URLs of the list
select_base_rpc_set(tracking, injected_rpcs, chainlist_rpcs) ==
    LET should_include(rpc) ==
            CASE tracking = "Yes" -> TRUE
              [] tracking = "Limited" ->
                    rpc.tracking = None \/ rpc.tracking \in {Some("Limited"), Some("None")}
              [] tracking = "None" -> rpc.tracking = Some("None")
        list == injected_rpcs \o SelectSeq(chainlist_rpcs, should_include)
    IN  [i \in 1..Len(list) |-> list[i].url]

InitState(lists, retryCounts) ==
    /\ rpcs \in lists
    /\ config \in {[retry_count |-> n] : n \in retryCounts}
    /\ cooldowns = EmptyMap
    /\ clock = 0
    /\ ticks = 0
    /\ ncalls = 0
    /\ call = [r \in Rounds |-> IdleCall]
    /\ warned = EmptyMap
    /\ latencies = EmptyMap
    /\ provider = None
    /\ hcall = [h \in HCallers |-> IdleH]
    /\ probe = NoProbe
    /\ proxy = IdleProxy
    /\ hooks = <<>>
    /\ fh = IdleFH
    /\ codec = NoCodec

InitWith(lists) == InitState(lists, {DefaultRetryCount})

CallInput(op, qt, mt, concurrency, cooldown_ms) ==
    [op |-> op, qt |-> F64Lit(qt), mt |-> F64Lit(mt),
     concurrency |-> concurrency, cooldown_ms |-> cooldown_ms]

\* a caller starts a call, or takes the result of one
CallNext(active, inputs, maxCalls) ==
    \/ \E r \in active, in \in inputs :
         /\ ncalls < maxCalls
         /\ Call(r, in.op, in.qt, in.mt, in.concurrency, in.cooldown_ms)
    \/ \E r \in active : Return(r)

\* the steps of consensus_attempt up to its result
AttemptNext(active, resps) ==
    \/ \E r \in active : FormCandidates(r)
    \/ \E r \in active, resp \in resps \cup {RespBadScheme} : Dispatch(r, resp)
    \/ \E r \in active : Fold(r)
    \/ \E r \in active : Tally(r)

ClockNext(steps, maxTicks) ==
    \E d \in steps :
        /\ ticks < maxTicks
        /\ Tick(d)

A == JStr("a")
B == JStr("b")
C == JStr("c")

\* Spec: one caller; providers answer "a", "b", "c" or not in time
RpcLists == {<<U1, U2, U3>>, <<U1, W1>>, <<U1, V1>>}
Inputs ==
    {CallInput("consensus", 66, 0, DefaultConcurrency, DefaultCooldownMs),
     CallInput("bft_consensus", 70, 50, DefaultConcurrency, DefaultCooldownMs),
     CallInput("bft_consensus", 70, 50, 2, DefaultCooldownMs)}
Responses == {RespResult(A), RespResult(B), RespResult(C), RespTimeout}
TickSteps == {1, DefaultCooldownMs}

Init == InitWith(RpcLists)
Next ==
    \/ CallNext({1}, Inputs, MaxCalls)
    \/ AttemptNext({1}, Responses)
    \/ \E r \in {1} : Relax(r)
    \/ ClockNext(TickSteps, MaxTicks)
Spec == Init /\ [][Next]_vars

\* SpecCooldown: two callers of consensus on one RpcCalls; providers answer
\* or fail, with or without "429" in the error text
CoolLists == {<<U1, U2>>}
CoolInputs ==
    {CallInput("consensus", 66, 0, DefaultConcurrency, DefaultCooldownMs)}
CoolResponses ==
    {RespResult(A), RespTimeout,
     RespTransport(<<"error sending request for url (https://host:", "429", "/)">>)}
CoolTickSteps == {2 * DefaultCooldownMs}

InitCooldown == InitWith(CoolLists)
NextCooldown ==
    \/ CallNext(Rounds, CoolInputs, MaxCoolCalls)
    \/ AttemptNext(Rounds, CoolResponses)
    \/ ClockNext(CoolTickSteps, MaxCoolTicks)
SpecCooldown == InitCooldown /\ [][NextCooldown]_vars

\* SpecFailures: one caller; providers answer or fail in every way
\* run_request tells apart
FailLists == {<<U1, U2>>}
FailInputs ==
    {CallInput("consensus", 66, 0, DefaultConcurrency, DefaultCooldownMs),
     CallInput("bft_consensus", 100, 90, DefaultConcurrency, DefaultCooldownMs)}
FailResponses ==
    {RespResult(A), RespResult(B), RespNoResult,
     RespGarbage(<<"error decoding response body">>),
     RespStatus(429), RespStatus(500),
     RespTransport(<<"connection refused">>), RespTimeout}

InitFailures == InitWith(FailLists)
NextFailures ==
    \/ CallNext({1}, FailInputs, MaxCalls)
    \/ AttemptNext({1}, FailResponses)
    \/ \E r \in {1} : Relax(r)
    \/ ClockNext(TickSteps, MaxTicks)
SpecFailures == InitFailures /\ [][NextFailures]_vars

\* the steps of init / refresh
HandlerNext(active, ops, answersOf, maxCalls) ==
    \/ \E h \in active, op \in ops : ncalls < maxCalls /\ HStart(h, op)
    \/ \E h \in active :
         /\ hcall[h].pc = "probe"
         /\ \E answers \in ProbeAnswersFor(rpcs, answersOf) : HProbe(h, answers)
    \/ \E h \in active : HApply(h)
    \/ \E h \in active : HSetProvider(h)
    \/ \E h \in active : HReturn(h)

\* the steps of send_request once it is called, and of the hooks it spawns
ProxySteps(resps) ==
    \/ /\ proxy.pc = "batch"
       /\ \E n \in 1..BatchSize : \E rs \in [1..n -> resps] : StartBatch(rs)
    \/ \E i \in 1..BatchSize : MemberDone(i)
    \/ JoinAll
    \/ SleepDone
    \/ \E k \in 1..Len(hooks), outcome \in {"ok", "err"} : HookEnd(k, outcome)

\* a caller calls try_proxy_request or takes its result, or the call proceeds
ProxyNext(resps, maxCalls) ==
    \/ ncalls < maxCalls /\ SendStart
    \/ ProxySteps(resps)
    \/ ProxyReturn

\* an endpoint that passes the probe in ms, and one that does not answer
Bytecode == JStr(Permit2Prefix \o <<"0a">>)
Block(number) == JObj(<<<<"number", JStr(number)>>>>)
Healthy(ms) == ProbeAnswer(RespResult(Block("0x10")), RespResult(Bytecode), ms, ms)
Silent == ProbeAnswer(RespTimeout, RespTimeout, 30, 30)

\* SpecProxy: a handler is initialised, then one caller sends requests
\* through the retrying proxy
ProxyLists == {<<U1>>, <<U1, U2>>, <<U1, U2, U3>>, <<U1, U2, U3, U4>>}
ProxyRetryCounts == {0, 1, 2}
\* every endpoint passes the probe, each at its own speed
ProxyProbeAnswers ==
    [url \in {U1, U2, U3, U4} |->
        {Healthy(CASE url = U1 -> 10 [] url = U2 -> 20 [] url = U3 -> 30
                   [] OTHER -> 40)}]
ProxyResponses ==
    {RespResult(A), RespStatus(500), RespTimeout,
     RespGarbage(<<"error decoding response body">>)}

InitProxy == InitState(ProxyLists, ProxyRetryCounts)
NextProxy ==
    \/ HandlerNext({1}, {"init"}, ProxyProbeAnswers, MaxProxyCalls)
    \/ ProxyNext(ProxyResponses, MaxProxyCalls)
SpecProxy == InitProxy /\ [][NextProxy]_vars

\* SpecProbe: init and refresh on a handler whose endpoints answer the two
\* probe calls in every way measure_rpcs tells apart
ProbeLists == {<<U1, U2>>, <<U1, W1>>}
ProbeBlocks ==
    {RespResult(Block("0x10")), RespResult(Block("0x11")),
     RespResult(JObj(<<>>)), RespTimeout}
ProbeCodes ==
    {RespResult(Bytecode), RespResult(JStr(<<"0x6040", "52">>)),
     RespResult(JNum(5)), RespNoResult}
ProbeAnswers ==
    [url \in {U1, U2} |->
        {ProbeAnswer(b, c, 10, 20) : b \in ProbeBlocks, c \in ProbeCodes}]

InitProbe == InitWith(ProbeLists)
NextProbe == HandlerNext({1}, {"init", "refresh"}, ProbeAnswers, MaxProbeCalls)
SpecProbe == InitProbe /\ [][NextProbe]_vars

\* SpecFaults: init and refresh on a handler whose endpoints answer each of
\* the two probe calls correctly or fail it in every way post_request tells
\* apart
FaultLists == {<<U1, U2>>, <<U1, W1>>}
FaultKinds ==
    {RespTimeout, RespStatus(503),
     RespGarbage(<<"error decoding response body">>),
     RespTransport(<<"connection refused">>)}
FaultAnswers ==
    [url \in {U1, U2} |->
        {ProbeAnswer(b, c, 10, 20) :
            b \in {RespResult(Block("0x10"))} \cup FaultKinds,
            c \in {RespResult(Bytecode)} \cup FaultKinds}]

InitFaults == InitWith(FaultLists)
NextFaults == HandlerNext({1}, {"init", "refresh"}, FaultAnswers, MaxFaultCalls)
SpecFaults == InitFaults /\ [][NextFaults]_vars

\* SpecWaves: one caller of consensus and bft_consensus over three providers
\* with options.concurrency = 0, 1, 2 and the default
WaveLists == {<<U1, U2, U3>>}
WaveInputs ==
    {CallInput(op, 66, 50, concurrency, DefaultCooldownMs) :
        op \in {"consensus", "bft_consensus"},
        concurrency \in {0, 1, 2, DefaultConcurrency}}
WaveResponses == {RespResult(A), RespResult(B), RespTimeout}

InitWaves == InitWith(WaveLists)
NextWaves ==
    \/ CallNext({1}, WaveInputs, MaxWaveCalls)
    \/ AttemptNext({1}, WaveResponses)
    \/ \E r \in {1} : Relax(r)
SpecWaves == InitWaves /\ [][NextWaves]_vars

\* SpecKey: one caller of consensus and bft_consensus over two providers
\* that answer with objects (members in either order, also one level down),
\* arrays (elements in either order) and strings
KeyInner(arr) ==
    {<<<<"a", JNum(2)>>, <<"c", arr>>>>, <<<<"c", arr>>, <<"a", JNum(2)>>>>}
KeyObjects ==
    {JObj(ms) :
        ms \in UNION {{<<<<"a", JNum(1)>>, <<"b", JObj(in)>>>>,
                       <<<<"b", JObj(in)>>, <<"a", JNum(1)>>>>} :
                        in \in KeyInner(JArr(<<JNum(1), JNum(2)>>))
                            \cup KeyInner(JArr(<<JNum(2), JNum(1)>>))}}
KeyValues ==
    KeyObjects
    \cup {JArr(<<JNum(1), JNum(2)>>), JArr(<<JNum(2), JNum(1)>>),
           JArr(<<JObj(<<<<"a", JNum(1)>>, <<"b", JNum(2)>>>>)>>),
           JArr(<<JObj(<<<<"b", JNum(2)>>, <<"a", JNum(1)>>>>)>>),
           JStr("a"), JStr("[1,2]"), JStr("1"), JNum(1)}
KeyLists == {<<U1, U2>>}
KeyInputs ==
    {CallInput("consensus", 66, 0, DefaultConcurrency, DefaultCooldownMs),
     CallInput("bft_consensus", 70, 50, DefaultConcurrency, DefaultCooldownMs)}
KeyResponses == {RespResult(v) : v \in KeyValues} \cup {RespTimeout}

InitKey == InitWith(KeyLists)
NextKey ==
    \/ CallNext({1}, KeyInputs, MaxKeyCalls)
    \/ AttemptNext({1}, KeyResponses)
    \/ \E r \in {1} : Relax(r)
SpecKey == InitKey /\ [][NextKey]_vars

\* SpecCodec: LatencyRecords with last_tested before, at and after the Unix
\* epoch, at a whole second or not, are written as JSON and read back
CodecLatencies == {0, 42, 1000000}
CodecSeconds == {0 - 1, 0, 1, 1700000000}
CodecNanos == {0, 999999999}
CodecFailures == {0, 1, 7}
CodecRecords ==
    {LatencyRecord(l, SystemTime(secs, nanos), f) :
        l \in CodecLatencies, secs \in CodecSeconds, nanos \in CodecNanos,
        f \in CodecFailures}

InitCodec == InitWith({<<U1>>})
NextCodec ==
    \/ \E record \in CodecRecords : Serialize(record)
    \/ Deserialize
    \/ Forget
SpecCodec == InitCodec /\ [][NextCodec]_vars

\* SpecAbort: one caller of consensus over three providers, with thresholds
\* 0.05, 0.66 and 1.0 and options.concurrency 1, 2 and the default
AbortLists == {<<U1, U2, U3>>}
AbortInputs ==
    {CallInput("consensus", qt, 0, concurrency, DefaultCooldownMs) :
        qt \in {5, 66, 100}, concurrency \in {1, 2, DefaultConcurrency}}
AbortResponses == {RespResult(A), RespResult(B), RespTimeout}

InitAbort == InitWith(AbortLists)
NextAbort ==
    \/ CallNext({1}, AbortInputs, MaxAbortCalls)
    \/ AttemptNext({1}, AbortResponses)
SpecAbort == InitAbort /\ [][NextAbort]_vars

\* SpecDup: handlers whose injected RPCs are also entries of the catalog
DupCatalog ==
    <<Rpc(U1, Some("Yes")), Rpc(U2, None), Rpc(U3, Some("None"))>>
DupLists ==
    {select_base_rpc_set(tracking, injected, DupCatalog) :
        tracking \in {"Yes", "Limited", "None"},
        injected \in {<<Rpc(U1, None)>>, <<Rpc(U2, None), Rpc(U3, None)>>}}
DupInputs ==
    {CallInput("consensus", 66, 0, DefaultConcurrency, DefaultCooldownMs),
     CallInput("bft_consensus", 66, 50, DefaultConcurrency, DefaultCooldownMs)}
DupResponses == {RespResult(A), RespResult(B), RespTimeout}

InitDup == InitWith(DupLists)
NextDup ==
    \/ CallNext({1}, DupInputs, MaxDupCalls)
    \/ AttemptNext({1}, DupResponses)
SpecDup == InitDup /\ [][NextDup]_vars

\* the steps of get_first_healthy, where answersOf[url] is what the endpoint
\* at url may do when probed
FirstHealthyNext(https, answersOf, maxCalls) ==
    \/ \E http \in https : ncalls < maxCalls /\ FHStart(http)
    \/ FHNext
    \/ /\ fh.pc = "probing"
       /\ \E ans \in answersOf[fh.shuffled[fh.index]] : FHProbed(ans)
    \/ FHReturn

\* SpecHealthy: one caller of get_first_healthy on lists with https://,
\* http:// and wss:// URLs, with and without plain HTTP allowed; an endpoint
\* passes the probe or does not answer
HealthyLists == {<<U1, H1, U2>>, <<H1, W1>>, <<U1, W1, U2, H1>>}
HealthyOptions == {None, Some(FALSE), Some(TRUE)}
HealthyAnswers == [url \in {U1, U2, H1} |-> {Healthy(10), Silent}]

InitHealthy == InitWith(HealthyLists)
NextHealthy == FirstHealthyNext(HealthyOptions, HealthyAnswers, MaxHealthyCalls)
SpecHealthy == InitHealthy /\ [][NextHealthy]_vars

\* SpecSync: init and refresh, one after the other, on a handler with three
\* endpoints; an endpoint reports one of two block numbers with the right or
\* a wrong bytecode, each at its own speed, or does not answer
SyncLists == {<<U1, U2, U3>>}
SyncMs(url) == CASE url = U1 -> 10 [] url = U2 -> 20 [] OTHER -> 30
WrongCode == JStr(<<"0x6040", "52">>)
SyncAnswers ==
    [url \in {U1, U2, U3} |->
        {ProbeAnswer(RespResult(Block(b)), RespResult(c), SyncMs(url), SyncMs(url)) :
            b \in {"0x10", "0x11"}, c \in {Bytecode, WrongCode}}
        \cup {Silent}]

InitSync == InitWith(SyncLists)
NextSync == HandlerNext({1}, {"init", "refresh"}, SyncAnswers, MaxSyncCalls)
SpecSync == InitSync /\ [][NextSync]_vars

\* SpecRace: two tasks call init and refresh on one handler at the same
\* time; each endpoint passes a probe cycle in 10 ms or in 30 ms, or does
\* not answer it
RaceLists == {<<U1, U2>>}
RaceAnswers == [url \in {U1, U2} |-> {Healthy(10), Healthy(30), Silent}]

InitRace == InitWith(RaceLists)
NextRace == HandlerNext(HCallers, {"init", "refresh"}, RaceAnswers, MaxRaceCalls)
SpecRace == InitRace /\ [][NextRace]_vars

\* SpecUrls: a task calls init and refresh while another calls
\* try_proxy_request with retry_count = 2; between two probe cycles an
\* endpoint may change its speed or stop answering, and an endpoint answers
\* the proxy or times out
UrlLists == {<<U1, U2>>}
UrlRetryCounts == {2}
UrlAnswers == [url \in {U1, U2} |-> {Healthy(10), Healthy(20), Silent}]
UrlResponses == {RespResult(A), RespTimeout}

InitUrls == InitState(UrlLists, UrlRetryCounts)
NextUrls ==
    \/ HandlerNext({1}, {"init", "refresh"}, UrlAnswers, MaxUrlCalls)
    \/ ProxyNext(UrlResponses, MaxUrlCalls)
SpecUrls == InitUrls /\ [][NextUrls]_vars

\* SpecStrikes: two callers of consensus over two providers that answer or
\* time out, and a clock step that outlasts the first two cooldown windows
StrikeLists == {<<U1, U2>>}
StrikeInputs ==
    {CallInput("consensus", 66, 0, DefaultConcurrency, DefaultCooldownMs)}
StrikeResponses == {RespResult(A), RespTimeout}
StrikeTickSteps == {2 * DefaultCooldownMs}

InitStrikes == InitWith(StrikeLists)
NextStrikes ==
    \/ CallNext(Rounds, StrikeInputs, MaxStrikeCalls)
    \/ AttemptNext(Rounds, StrikeResponses)
    \/ ClockNext(StrikeTickSteps, MaxStrikeTicks)
SpecStrikes == InitStrikes /\ [][NextStrikes]_vars

\* SpecEnvelope: try_proxy_request with retry_count = 2 after init; an
\* endpoint answers with a result, with a JSON-RPC error envelope (HTTP 200,
\* no result), or not at all
EnvelopeLists == {<<U1, U2>>, <<U1, U2, U3, U4>>}
EnvelopeRetryCounts == {2}
EnvelopeResponses == {RespResult(A), RespNoResult, RespTimeout}

InitEnvelope == InitState(EnvelopeLists, EnvelopeRetryCounts)
NextEnvelope ==
    \/ HandlerNext({1}, {"init"}, ProxyProbeAnswers, MaxEnvelopeCalls)
    \/ ProxyNext(EnvelopeResponses, MaxEnvelopeCalls)
SpecEnvelope == InitEnvelope /\ [][NextEnvelope]_vars

\* SpecBatch: try_proxy_request with retry_count = 1 after init on three
\* and on four endpoints, each of which answers "a" or "b" or times out,
\* resolving in any order
BatchLists == {<<U1, U2, U3>>, <<U1, U2, U3, U4>>}
BatchRetryCounts == {1}
BatchResponses == {RespResult(A), RespResult(B), RespTimeout}

InitBatch == InitState(BatchLists, BatchRetryCounts)
NextBatch ==
    \/ HandlerNext({1}, {"init"}, ProxyProbeAnswers, MaxBatchCalls)
    \/ ProxyNext(BatchResponses, MaxBatchCalls)
SpecBatch == InitBatch /\ [][NextBatch]_vars

\* SpecLive: one caller of consensus and bft_consensus, also with
\* options.concurrency = 0, and one of init and try_proxy_request, also with
\* retry_count = 0; an endpoint may send success headers and no body.  The
\* runtime runs every task that can run, and every timer fires.
LiveLists == {<<U1, U2>>}
LiveInputs ==
    {CallInput("consensus", 66, 0, DefaultConcurrency, DefaultCooldownMs),
     CallInput("consensus", 66, 0, 0, DefaultCooldownMs),
     CallInput("bft_consensus", 70, 50, DefaultConcurrency, DefaultCooldownMs)}
LiveResponses == {RespResult(A), RespResult(B), RespTimeout, RespHangBody}
LiveRetryCounts == {0, 2}

ConsensusSteps == AttemptNext({1}, LiveResponses) \/ \E r \in {1} : Relax(r)
HandlerSteps ==
    \E h \in {1} :
        \/ /\ hcall[h].pc = "probe"
           /\ \E answers \in ProbeAnswersFor(rpcs, ProxyProbeAnswers) :
                HProbe(h, answers)
        \/ HApply(h)
        \/ HSetProvider(h)

InitLive == InitState(LiveLists, LiveRetryCounts)
NextLive ==
    \/ CallNext({1}, LiveInputs, MaxLiveCalls)
    \/ ConsensusSteps
    \/ HandlerNext({1}, {"init"}, ProxyProbeAnswers, MaxLiveCalls)
    \/ ProxyNext(LiveResponses, MaxLiveCalls)
SpecLive ==
    /\ InitLive /\ [][NextLive]_vars
    /\ WF_vars(ConsensusSteps)
    /\ WF_vars(ProxySteps(LiveResponses))
    /\ WF_vars(HandlerSteps)

\* SpecTracker: one caller of consensus with several cooldown_ms options;
\* providers answer or fail, with or without "429" in the error text
TrackLists == {<<U1, U2>>}
TrackInputs ==
    {CallInput("consensus", 66, 0, DefaultConcurrency, 1001),
     CallInput("consensus", 66, 0, DefaultConcurrency, DefaultCooldownMs),
     CallInput("consensus", 66, 0, DefaultConcurrency, 200001)}
TrackTickSteps == {MaxDelayMs}

InitTracker == InitWith(TrackLists)
NextTracker ==
    \/ CallNext({1}, TrackInputs, MaxTrackCalls)
    \/ AttemptNext({1}, CoolResponses)
    \/ ClockNext(TrackTickSteps, MaxTrackTicks)
SpecTracker == InitTracker /\ [][NextTracker]_vars

\* ------------------------------------------------------------------------
\* Properties
\* ------------------------------------------------------------------------
Range(seq) == {seq[i] : i \in 1..Len(seq)}

\* how many of the round's requests were answered with this result
Answered(c, v) == Cardinality({i \in 1..Len(c.reqs) : c.reqs[i].resp = RespResult(v)})

\* a finished consensus(0.66) call with default options over 3 candidates
Consensus3(c) ==
    /\ c.pc = "done" /\ c.op = "consensus"
    /\ c.quorum_threshold = F64Lit(66)
    /\ c.concurrency = DefaultConcurrency
    /\ Len(c.rpc_urls) = 3 /\ Len(c.reqs) = 3

\* C1: in every dispatch order, consensus(0.66) with default options over 3
\* providers that answer "a", "a" and "b" returns "a".
C1_AABReturnsA ==
    \A r \in Rounds :
        (Consensus3(call[r]) /\ Answered(call[r], A) = 2 /\ Answered(call[r], B) = 1)
            => call[r].ret = Ok(A)

\* C2: in every dispatch order, consensus(0.66) over 3 providers that answer
\* three different values "a", "b", "c" fails with ConsensusFailure.
C2_ABCFails ==
    \A r \in Rounds :
        (/\ Consensus3(call[r])
         /\ Answered(call[r], A) = 1 /\ Answered(call[r], B) = 1
         /\ Answered(call[r], C) = 1)
            => (call[r].ret.t = "Err" /\ call[r].ret.kind = "ConsensusFailure")

\* C3: the attempt's outcome (success flag, winning key, value) is the same
\* for every order in which the tally's hash map may iterate.
C3_TieBreakFixed ==
    \A r \in Rounds :
        call[r].attempt # None =>
            \A order \in KeyOrders(DOMAIN call[r].counts) :
                FinishAttempt(call[r], order) = call[r].attempt

\* the decimal literal a threshold was given as
LitOf(x) == CHOOSE h \in {0, 5, 50, 51, 60, 66, 67, 70, 75, 80, 90, 100} : F64Lit(h) = x

\* ceil(n * h / 100)
CeilHundredths(n, h) == IF n * h <= 0 THEN 0 ELSE ((n * h - 1) \div 100) + 1

\* count >= ceil(n*t) for t = threshold, or for a t = threshold - 0.05*k that
\* is >= minThreshold and has ceil(n*t) > 0
BftAccepts(n, count, th, mn) ==
    \/ count >= CeilHundredths(n, th)
    \/ \E k \in 1..20 :
         /\ th - 5 * k >= mn
         /\ CeilHundredths(n, th - 5 * k) > 0
         /\ count >= CeilHundredths(n, th - 5 * k)

\* C4: bft_consensus with n >= 1 collected responses and mode count c returns
\* the mode key's value iff c >= ceil(n*t) for t = threshold or a relaxed t
\* down to minThreshold, and fails with ConsensusFailure otherwise.
C4_BftAcceptsIffQuorum ==
    \A r \in Rounds :
        LET c == call[r]
            a == c.attempt
        IN  (c.pc = "done" /\ c.op = "bft_consensus" /\ a # None) =>
                IF /\ a.results # <<>>
                   /\ BftAccepts(Len(a.results), a.counts[a.most_common_key.v],
                                 LitOf(c.quorum_threshold), LitOf(c.min_threshold))
                THEN c.ret = Ok(a.key_to_value[a.most_common_key.v])
                ELSE c.ret.t = "Err" /\ c.ret.kind = "ConsensusFailure"

\* C5: in a bft_consensus call every entry of the candidate list is requested
\* exactly once, by the base attempt, and no request is dispatched once the
\* threshold is being lowered.
C5_BftSingleAttempt ==
    /\ [](\A r \in Rounds :
            (call[r].op = "bft_consensus" /\ call[r].attempt # None) =>
                /\ Len(call[r].reqs) = Len(call[r].rpc_urls)
                /\ \A i \in 1..Len(call[r].reqs) :
                     call[r].reqs[i].url = call[r].rpc_urls[i])
    /\ [][\A r \in Rounds :
            call[r].pc = "relax" => call'[r].reqs = call[r].reqs]_vars

\* at least two lowerings of the threshold have run after three requests
C5_Witness ==
    \E r \in Rounds :
        /\ call[r].op = "bft_consensus" /\ call[r].pc = "relax"
        /\ Len(call[r].reqs) = 3
        /\ ~F64Geq(call[r].curr, F64Lit(60))

\* a URL the claim counts as a candidate at instant now
WebSocket(url) == url.scheme \in {"ws", "wss"}
CoolingAt(url, now) == url \in DOMAIN cooldowns /\ cooldowns[url].until > now
ClaimedCandidates(now) ==
    {i \in 1..Len(rpcs) : ~WebSocket(rpcs[i]) /\ ~CoolingAt(rpcs[i], now)}

\* C6: with no candidate (non-WebSocket, not cooling down) the call fails with
\* NoAvailableRpcs, with exactly one with ConsensusFailure; no request is
\* sent and the cooldown table is unchanged.
C6_NoneOrOneCandidate ==
    [][\A r \in Rounds :
         (call[r].pc = "read" /\ call'[r].pc # "read"
          /\ Cardinality(ClaimedCandidates(call[r].now)) <= 1) =>
            /\ call'[r].pc = "done"
            /\ call'[r].reqs = <<>>
            /\ cooldowns' = cooldowns
            /\ call'[r].ret.t = "Err"
            /\ call'[r].ret.kind =
                 IF ClaimedCandidates(call[r].now) = {}
                 THEN "NoAvailableRpcs" ELSE "ConsensusFailure"]_vars

\* C7 as stated: a URL is in the candidate list iff it has no cooldown entry
\* or its until is <= the sampled now.
C7_Original ==
    [][\A r \in Rounds :
         (call[r].pc = "read" /\ call'[r].pc # "read") =>
            \A url \in Range(rpcs) :
                url \in Range(call'[r].rpc_urls) <=> ~CoolingAt(url, call[r].now)]_vars

\* C7 amended: a URL of the handler's list that is not a wss:// URL is in the
\* candidate list iff it has no cooldown entry or its until is <= the sampled
\* now; the list is not changed afterwards and every request of the round
\* goes to a URL of it.
C7_CooldownFilter ==
    [][\A r \in Rounds :
         /\ (call[r].pc = "read" /\ call'[r].pc # "read") =>
               \A url \in Range(rpcs) :
                   ~IsWss(url) =>
                       (url \in Range(call'[r].rpc_urls)
                            <=> ~CoolingAt(url, call[r].now))
         /\ (call[r].pc \notin {"idle", "read"} /\ call'[r].pc # "idle") =>
               /\ Range(call'[r].rpc_urls) = Range(call[r].rpc_urls)
               /\ \A i \in 1..Len(call'[r].reqs) :
                     call'[r].reqs[i].url \in Range(call[r].rpc_urls)]_vars

\* a list was formed that leaves out a URL still cooling down and takes one
\* whose cooldown ended exactly at the sampled now
C7_Witness ==
    \E r \in Rounds :
        /\ call[r].pc = "loop"
        /\ \E u \in Range(rpcs) \ Range(call[r].rpc_urls) :
             u \in DOMAIN cooldowns /\ cooldowns[u].until > call[r].now
        /\ \E u \in Range(call[r].rpc_urls) :
             u \in DOMAIN cooldowns /\ cooldowns[u].until = call[r].now

\* C8: with a fixed base delay, the delay applied on a failure of a URL is
\* >= the delay applied on its previous failure, and never above 5 minutes.
C8_DelayMonotone ==
    \A u \in DOMAIN warned :
        /\ warned[u].delay_ms <= 300000
        /\ (warned[u].strikes > 1 /\ warned[u].prev_base_ms = warned[u].base_ms)
              => warned[u].delay_ms >= warned[u].prev_delay_ms

\* C9: the stored until of a URL is never replaced by an earlier instant.
C9_UntilMonotone ==
    [][\A u \in DOMAIN cooldowns :
         /\ u \in DOMAIN cooldowns'
         /\ cooldowns'[u].until >= cooldowns[u].until]_vars

\* C10: a cooldown caused by an HTTP 429 reply is applied as rate-limited
\* (factor 2.0); one caused by a timeout, another non-success status, an
\* unparsable body or a missing result is not (factor 1.5).
C10_RateLimitFactor ==
    \A u \in DOMAIN warned :
        LET w == warned[u] IN
        /\ (w.cause.kind = "status" /\ w.cause.status = 429)
              => (w.is_rate_limit
                  /\ w.delay_ms = CooldownDelay(w.base_ms, w.strikes, TRUE))
        /\ (\/ w.cause.kind \in {"timeout", "garbage", "noresult"}
            \/ w.cause.kind = "status" /\ w.cause.status # 429)
              => (~w.is_rate_limit
                  /\ w.delay_ms = CooldownDelay(w.base_ms, w.strikes, FALSE))

\* the requests of a round whose outcome has been folded, and those that
\* were dispatched and have not been
Folded(c) == Len(c.results) + Len(c.cooled)
InFlight(c) == Len(c.reqs) - Folded(c)

\* C11: in a round that has ended, every dispatched request that failed
\* caused exactly one apply_cooldown for its URL, also when it belongs to the
\* wave in which early abort triggered; and unless the round was aborted by
\* early abort every candidate URL was dispatched, whatever failed.
Failed(req) == ~run_request(req.url, req.resp).ok
TimesCooled(c, i) == Cardinality({j \in 1..Len(c.cooled) : c.cooled[j] = i})
C11_EveryFailureCooled ==
    \A r \in Rounds :
        LET c == call[r] IN
        (c.pc \in {"tally", "relax", "done"} /\ c.reqs # <<>>) =>
            /\ \A i \in 1..Len(c.reqs) :
                 Failed(c.reqs[i]) => TimesCooled(c, i) = 1
            /\ ~c.aborted => Len(c.reqs) = Len(c.rpc_urls)

\* C12: every apply_cooldown sets the URL's strikes to its previous strikes
\* + 1 (1 when it had no entry) and its until to now + delay, where delay is
\* min(floor(base * factor^(strikes-1)), 300000) ms.
Pow(b, k) == IF k = 0 THEN 1 ELSE IF k = 1 THEN b ELSE IF k = 2 THEN b * b
             ELSE IF k = 3 THEN b * b * b ELSE b * b * b * b
ClaimedDelay(base_ms, strikes, is_rate_limit) ==
    LET exact == IF is_rate_limit
                 THEN base_ms * Pow(2, strikes - 1)
                 ELSE (base_ms * Pow(3, strikes - 1)) \div Pow(2, strikes - 1)
    IN  IF exact < 300000 THEN exact ELSE 300000
C37_StrikesNeverReset ==
    /\ [][\A url \in DOMAIN cooldowns :
            /\ url \in DOMAIN cooldowns'
            /\ cooldowns'[url].strikes >= cooldowns[url].strikes
            /\ cooldowns'[url] # cooldowns[url] =>
                  cooldowns'[url].strikes = cooldowns[url].strikes + 1]_vars
    /\ [][clock' # clock => cooldowns' = cooldowns]_vars
    /\ [][(\E r \in Rounds : /\ call[r].pc = call'[r].pc
                             /\ Len(call'[r].results) > Len(call[r].results))
            => cooldowns' = cooldowns]_vars
\* a URL got its second strike after its first window had expired, and a
\* round holds a successful response of that URL
C37_Witness ==
    \E url \in DOMAIN cooldowns :
        /\ cooldowns[url].strikes = 2
        /\ warned[url].prev_until <= warned[url].at
        /\ \E r \in Rounds : \E i \in 1..Folded(call[r]) :
              call[r].reqs[i].url = url /\ ~Failed(call[r].reqs[i])

\* ------------------------------------------------------------------------
\* Retrying proxy: properties
\* ------------------------------------------------------------------------
MemberOutcome(m) == attempt_rpc(m.url, m.resp)

\* C13: as soon as a member of the running batch has yielded an HTTP-success,
\* parsable response, the batch race is ready to return it: it does not wait
\* for the members that are still outstanding.
C13_FirstSuccessReturns ==
    (/\ proxy.pc = "join"
     /\ \E i \in 1..Len(proxy.members) :
          proxy.members[i].done /\ MemberOutcome(proxy.members[i]).t = "Ok")
    => JoinReady(proxy.members)

\* C14: with retry_count = 1 and a single batch of 3 URLs of which only the
\* third succeeds, send_request returns the third URL's response, has sent
\* exactly one request to each of the three URLs, and has started no second
\* pass and no retry sleep.
OnlyThirdSucceeds ==
    /\ config.retry_count = 1
    /\ Len(proxy.urls) = 3 /\ Len(proxy.members) = 3
    /\ MemberOutcome(proxy.members[1]).t = "Err"
    /\ MemberOutcome(proxy.members[2]).t = "Err"
    /\ MemberOutcome(proxy.members[3]).t = "Ok"
C14_ThirdOfThree ==
    (proxy.pc \in {"sleep", "done"} /\ OnlyThirdSucceeds) =>
        /\ proxy.pc = "done"
        /\ proxy.ret = Ok(proxy.members[3].resp)
        /\ proxy.sent = proxy.urls
        /\ proxy.sleeps = 0
        /\ proxy.loops = 1
C14_Witness ==
    proxy.pc = "done" /\ OnlyThirdSucceeds /\ proxy.ret.t = "Ok"

\* C15: a send_request in which every attempt failed ends with
\* AllEndpointsFailed after exactly retry_count * |urls| attempts (none when
\* retry_count = 0), whatever the length of the URL list.
C15_AllFail ==
    (/\ proxy.pc = "done" /\ proxy.base_url # None
     /\ proxy.failures = Len(proxy.sent)) =>
        /\ proxy.ret = Err("AllEndpointsFailed", "")
        /\ Len(proxy.sent) = config.retry_count * Len(proxy.urls)
C15_Witness ==
    /\ proxy.pc = "done" /\ proxy.ret = Err("AllEndpointsFailed", "")
    /\ config.retry_count = 2 /\ Len(proxy.urls) = 4
    /\ proxy.failures = 8

\* C16: the requests of a send_request go to the URLs in input order, pass
\* after pass; a batch is the next chunk of at most 3 URLs of the pass; and
\* while a batch runs, and when the next one starts, every request of the
\* earlier batches has failed.
C16_SequentialBatches ==
    /\ \A j \in 1..Len(proxy.sent) :
         proxy.sent[j] = proxy.urls[((j - 1) % Len(proxy.urls)) + 1]
    /\ proxy.pc = "join" =>
         /\ Len(proxy.members) <= 3
         /\ proxy.failures = Len(proxy.sent) - Len(proxy.members)
         /\ LET start == (Len(proxy.sent) - Len(proxy.members)) % Len(proxy.urls)
                left == Len(proxy.urls) - start
            IN  /\ start % 3 = 0
                /\ Len(proxy.members) = IF left < 3 THEN left ELSE 3
    /\ proxy.pc \in {"batch", "sleep"} => proxy.failures = Len(proxy.sent)
C16_Witness ==
    /\ proxy.pc = "join" /\ proxy.chunk = 2
    /\ Len(proxy.urls) = 4 /\ proxy.sent = proxy.urls
    /\ proxy.failures = 3

\* C17: the step by which send_request comes to return a response spawns
\* exactly one refresh hook and leaves it running, the step by which it comes
\* to return an error spawns none, and the end of a hook, with Ok or with an
\* error, changes nothing of the call or its result.
C17_RefreshHook ==
    /\ [][(proxy.pc # "done" /\ proxy'.pc = "done") =>
            IF proxy'.ret.t = "Ok"
            THEN hooks' = Append(hooks, "running") /\ proxy'.spawned = 1
            ELSE hooks' = hooks /\ proxy'.spawned = 0]_vars
    /\ [][(hooks' # hooks /\ Len(hooks') = Len(hooks)) => proxy' = proxy]_vars
\* the caller has taken its response and the hook it spawned is still running
C17_Witness ==
    proxy.pc = "idle" /\ hooks = <<"running">>

\* urls holds no URL twice and its URLs from position from on are in
\* ascending order of their latency in lat
AscendingFrom(urls, from, lat) ==
    /\ \A i, j \in 1..Len(urls) : urls[i] = urls[j] => i = j
    /\ \A i, j \in from..Len(urls) : i < j => lat[urls[i]] <= lat[urls[j]]

\* C36: when a send_request starts, its URL list holds the base URL and the
\* keys of the latency map of that moment, each once: the keys in ascending
\* order of latency, and before them the base URL when it is not a key.
\* For the rest of the call the base URL and the list stay as they are,
\* whatever happens to the latency map, and the requests sent are the list
\* from its first URL on, pass after pass.
C36_FixedUrlList ==
    /\ [][(proxy.pc = "idle" /\ proxy'.pc # "idle" /\ provider # None) =>
            LET urls == proxy'.urls IN
            /\ proxy'.base_url = provider
            /\ Range(urls) = DOMAIN latencies \cup {provider.v}
            /\ IF provider.v \in DOMAIN latencies
               THEN AscendingFrom(urls, 1, latencies)
               ELSE urls[1] = provider.v /\ AscendingFrom(urls, 2, latencies)]_vars
    /\ [][(proxy.pc # "idle" /\ proxy'.pc # "idle") =>
            (proxy'.urls = proxy.urls /\ proxy'.base_url = proxy.base_url)]_vars
    /\ [](\A k \in 1..Len(proxy.sent) :
            proxy.sent[k] = proxy.urls[((k - 1) % Len(proxy.urls)) + 1])
\* the second pass has been sent from a list that the latency map of the
\* moment would no longer give
C36_Witness ==
    /\ proxy.pc = "join" /\ Len(proxy.sent) = 2 * Len(proxy.urls)
    /\ Len(proxy.urls) = 2
    /\ \/ Range(proxy.urls) # DOMAIN latencies
       \/ ~AscendingFrom(proxy.urls, 1, latencies)

\* C38: when a batch with a member that answered HTTP 200 with an envelope
\* that has no result has been joined, send_request ends with Ok and the
\* refresh hook is spawned once; it ends with that very envelope when no
\* member before it in the batch has an envelope, and after it has ended no
\* further URL is requested.
C38_ErrorEnvelopeIsOk ==
    /\ [][(/\ proxy.pc = "join" /\ proxy'.pc # "join"
           /\ \E i \in 1..Len(proxy.members) :
                 proxy.members[i].resp = RespNoResult) =>
            /\ proxy'.pc = "done"
            /\ proxy'.ret.t = "Ok"
            /\ Len(hooks') = Len(hooks) + 1
            /\ \A i \in 1..Len(proxy.members) :
                  (/\ proxy.members[i].resp = RespNoResult
                   /\ \A j \in 1..(i - 1) :
                         proxy.members[j].resp = RespTimeout)
                  => proxy'.ret = Ok(RespNoResult)]_vars
    /\ [][(proxy.pc = "done" /\ proxy'.pc # "idle") =>
            proxy'.sent = proxy.sent]_vars
\* of four URLs the first batch was requested in the first pass; its first
\* member timed out, the second sent an error envelope, which was returned
C38_Witness ==
    /\ proxy.pc = "done" /\ proxy.ret = Ok(RespNoResult)
    /\ Len(proxy.urls) = 4 /\ Len(proxy.sent) = 3 /\ proxy.loops = 2
    /\ proxy.members[1].resp = RespTimeout
    /\ proxy.members[2].resp = RespNoResult
    /\ proxy.spawned = 1

C18_OnlyExhaustion ==
    (proxy.ret # None /\ proxy.ret.t = "Err") =>
        IF proxy.base_url = None
        THEN proxy.ret = Err("NoAvailableRpcs", "")
        ELSE proxy.ret = Err("AllEndpointsFailed", "")
C18_Witness ==
    /\ proxy.pc = "done" /\ proxy.ret = Err("AllEndpointsFailed", "")
    /\ \E i \in 1..Len(proxy.members) :
         MemberOutcome(proxy.members[i]).kind \in {"TimeoutError", "JsonRpc", "Network"}

\* ------------------------------------------------------------------------
\* Probe cycle: properties
\* ------------------------------------------------------------------------
\* C20: in the most recent probe cycle, a URL whose eth_getCode result is
\* absent, not a string, or does not start with 0x604060808152600 is no key
\* of the returned latency map, also when both of its calls returned HTTP
\* success with a result.
CodeRejected(ans) ==
    \/ ans.code.kind # "result"
    \/ ans.code.value.t # "String"
    \/ ~(/\ Len(ans.code.value.s) >= 2
         /\ ans.code.value.s[1] = "0x6040"
         /\ ans.code.value.s[2] = "60808152600")
C20_BadBytecodeExcluded ==
    \A i \in 1..Len(probe.list) :
        CodeRejected(probe.answers[i]) =>
            probe.list[i] \notin DOMAIN probe.latencies
\* one endpoint passed, the other answered both calls with a result but its
\* code starts differently
C20_Witness ==
    \E i, j \in 1..Len(probe.list) :
        /\ probe.list[i] \in DOMAIN probe.latencies
        /\ probe.answers[j].block = RespResult(Block("0x10"))
        /\ probe.answers[j].code = RespResult(JStr(<<"0x6040", "52">>))
        /\ probe.list[j] \notin DOMAIN probe.latencies

\* the successful checks of the most recent probe cycle, how many of them
\* reported block number b, and the modes of what they reported
ProbePassed == {i \in 1..Len(probe.results) : probe.results[i].success}
PassedWith(b) ==
    {i \in ProbePassed : probe.results[i].block_number = Some(b)}
PassedBlocks ==
    {probe.results[i].block_number.v :
        i \in {j \in ProbePassed : probe.results[j].block_number # None}}
PassedModes ==
    {b \in PassedBlocks :
        \A b2 \in PassedBlocks :
            Cardinality(PassedWith(b)) >= Cardinality(PassedWith(b2))}

\* C21: the latency map of a probe cycle holds exactly the successful
\* endpoints that reported the majority block number, which is a mode of the
\* block numbers reported by the successful checks: what a failed endpoint
\* reported has no part in it.
C21_MajorityOfSuccessful ==
    (ProbePassed # {} /\ PassedModes # {}) =>
        \E m \in PassedModes :
            DOMAIN probe.latencies = {probe.list[i] : i \in PassedWith(m)}

\* C22: every URL of the latency map of a probe cycle belongs to an endpoint
\* whose check was successful and bytecode-valid and that reported the
\* majority block number, the one every endpoint of the map reported; an
\* endpoint whose block response carries no block number is not in the map.
C22_MapOnlySynced ==
    \A i \in 1..Len(probe.list) :
        probe.list[i] \in DOMAIN probe.latencies =>
            /\ probe.results[i].success
            /\ probe.results[i].bytecode_ok
            /\ probe.results[i].block_number # None
            /\ \A j \in 1..Len(probe.list) :
                   probe.list[j] \in DOMAIN probe.latencies =>
                       probe.results[j].block_number = probe.results[i].block_number

\* C23: once init or refresh has returned, the handler's latency map holds
\* no URL that the most recent probe cycle left out of its map (as failed,
\* bytecode-invalid or out of sync), also when that cycle passed no endpoint.
C23_NoStaleLatency ==
    (probe # NoProbe /\ \A h \in HCallers : hcall[h].pc \in {"idle", "done"}) =>
        \A url \in DOMAIN latencies : url \in DOMAIN probe.latencies

\* both probe calls were answered with HTTP success and a body that has a
\* result, and the code is the expected bytecode
AnswerPasses(ans) ==
    ans.block.kind = "result" /\ ans.code.kind = "result" /\ ~CodeRejected(ans)

\* C24: a probe cycle returns Ok whatever its endpoints do, with one check
\* result per RPC of its input, in input order, and an endpoint's check is
\* marked successful iff its own two answers pass, whatever the others did.
C24_ProbeNeverFails ==
    probe # NoProbe =>
        /\ probe.ret.t = "Ok"
        /\ Len(probe.results) = Len(probe.list)
        /\ \A i \in 1..Len(probe.list) :
              /\ probe.results[i].url = probe.list[i]
              /\ probe.results[i].success <=> AnswerPasses(probe.answers[i])
\* the first endpoint failed one call by a timeout and the other by a
\* malformed body, and the second endpoint's check is successful
C24_Witness ==
    /\ Len(probe.list) = 2
    /\ probe.answers[1].block = RespTimeout
    /\ probe.answers[1].code.kind = "garbage"
    /\ probe.results[2].success
    /\ DOMAIN probe.latencies = {probe.list[2]}

\* C25: the fastest selection made on a latency map is None iff the map is
\* empty; otherwise it is a URL of minimal latency, and it is the URL every
\* other selection on a map with the same contents returns.
C25_FastestSelection ==
    \A h \in HCallers :
        hcall[h].pc = "apply" =>
            LET lat == hcall[h].lat
                fastest == hcall[h].fastest
            IN  /\ fastest = None <=> DOMAIN lat = {}
                /\ fastest # None =>
                      /\ fastest.v \in DOMAIN lat
                      /\ \A url \in DOMAIN lat : lat[fastest.v] <= lat[url]
                /\ \A order \in KeyOrders(DOMAIN lat) :
                      pick_fastest(lat, order) = fastest

\* ------------------------------------------------------------------------
\* get_first_healthy: properties
\* ------------------------------------------------------------------------
\* the URLs the claim lets get_first_healthy probe
MayProbe(url, http) ==
    url.scheme = "https" \/ (url.scheme = "http" /\ http = Some(TRUE))

C27_BoundedWaves ==
    /\ [](\A r \in Rounds : InFlight(call[r]) <= call[r].concurrency)
    /\ [][\A r \in Rounds :
            /\ Len(call'[r].reqs) > Len(call[r].reqs) =>
                  /\ call[r].pc = "loop"
                  /\ Folded(call[r]) = Len(call[r].reqs) - Len(call[r].tasks)
                  /\ Len(call'[r].tasks) <= call[r].concurrency
            /\ call[r].pc = "drain" => call'[r].reqs = call[r].reqs]_vars
\* with concurrency 2 the third request is out alone, as the second wave,
\* and the two of the first wave have been folded
C27_Witness ==
    \E r \in Rounds :
        /\ call[r].concurrency = 2 /\ call[r].pc = "drain"
        /\ Len(call[r].reqs) = 3 /\ Len(call[r].tasks) = 1
        /\ Folded(call[r]) = 2

\* the values of the requests that were awaited and had succeeded, in the
\* order of their dispatch (the drain awaits the tasks in that order)
FoldedValues(c) ==
    LET ok == SelectSeq([i \in 1..Folded(c) |-> c.reqs[i]],
                        LAMBDA req : ~Failed(req))
    IN  [i \in 1..Len(ok) |-> run_request(ok[i].url, ok[i].resp).value]

\* C30: an attempt that has ended with n >= 1 collected responses, where
\* these are the successful ones among the requests awaited before dispatch
\* stopped, is a success iff the count of its mode key, a key of maximal
\* count, is >= ceil(n * threshold); its value is then the value recorded
\* for that key, one whose stable key it is, and consensus returns it.
C30_AttemptQuorum ==
    \A r \in Rounds :
        LET c == call[r]
            a == c.attempt
        IN  (a # None /\ a.results # <<>>) =>
                LET n == Len(a.results)
                    key == a.most_common_key.v
                IN  /\ a.results = FoldedValues(c)
                    /\ a.most_common_key # None
                    /\ \A k \in DOMAIN a.counts : a.counts[k] <= a.counts[key]
                    /\ a.success <=>
                          a.counts[key] >=
                              CeilHundredths(n, LitOf(c.quorum_threshold))
                    /\ IF a.success
                       THEN /\ a.value = Some(a.key_to_value[key])
                            /\ stable_string(a.value.v) = key
                            /\ (c.op = "consensus" /\ c.pc = "done") =>
                                  c.ret = Ok(a.value.v)
                       ELSE a.value = None
\* three requests of which one failed: n = 2, both responses agree, and the
\* attempt at threshold 0.7 succeeded with count 2 = ceil(1.4)
C30_Witness ==
    \E r \in Rounds :
        LET c == call[r] IN
        /\ c.attempt # None /\ c.attempt.success
        /\ c.quorum_threshold = F64Lit(70)
        /\ Len(c.reqs) = 3 /\ Len(c.attempt.results) = 2

\* the first request of the round, in dispatch order, that did not fail
\* (0 when every request failed)
FirstSuccess(c) ==
    IF \E i \in 1..Len(c.reqs) : ~Failed(c.reqs[i])
    THEN CHOOSE i \in 1..Len(c.reqs) :
            ~Failed(c.reqs[i]) /\ \A j \in 1..(i - 1) : Failed(c.reqs[j])
    ELSE 0

\* the last position of the wave that position i belongs to
WaveEnd(c, i) ==
    LET last == ((i + c.concurrency - 1) \div c.concurrency) * c.concurrency
    IN  IF last < Len(c.rpc_urls) THEN last ELSE Len(c.rpc_urls)

C33_DistinctSources ==
    \A r \in Rounds :
        LET c == call[r] IN
        /\ \A i, j \in 1..Len(c.reqs) :
              c.reqs[i].url = c.reqs[j].url => i = j
        /\ Len(c.results) <=
              Cardinality({c.reqs[i].url : i \in 1..Folded(c)})

\* C34: when no call of init or refresh stands between its write of the
\* latency map and its write of the provider, the provider's base URL is a
\* key of the handler's latency map and no key of the map has a smaller
\* latency.
C34_ProviderFromSameCycle ==
    ((\A h \in HCallers : hcall[h].pc # "build") /\ provider # None) =>
        /\ provider.v \in DOMAIN latencies
        /\ \A url \in DOMAIN latencies : latencies[provider.v] <= latencies[url]

\* C35: a call of init or refresh whose probe cycle passed no endpoint
\* changes neither the provider nor the latency map in any of its steps,
\* never reaches build_provider, and ends with Ok(()) for refresh and with
\* NoAvailableRpcs for init.
C35_EmptyProbe ==
    [][\A h \in HCallers :
        (/\ hcall'[h] # hcall[h]
         /\ hcall'[h].pc \in {"apply", "done"}
         /\ hcall'[h].fastest = None) =>
            /\ hcall[h].pc \in {"probe", "apply"}
            /\ latencies' = latencies
            /\ provider' = provider
            /\ hcall'[h].pc = "apply" => probe'.latencies = EmptyMap
            /\ hcall'[h].pc = "done" =>
                  hcall'[h].ret = IF hcall'[h].op = "init"
                                  THEN Err("NoAvailableRpcs", "")
                                  ELSE Ok("unit")]_vars
\* a refresh that found nothing has ended on a handler that had a provider
\* and a latency map
C35_Witness ==
    \E h \in HCallers :
        /\ hcall[h].pc = "done" /\ hcall[h].op = "refresh"
        /\ hcall[h].fastest = None /\ hcall[h].ret = Ok("unit")
        /\ probe.latencies = EmptyMap
        /\ provider # None /\ latencies # EmptyMap

\* C28: no URL of the handler's list with scheme ws:// or wss:// is in a
\* round's candidate list, and no request of a round goes to one.
C28_NoWebSocket ==
    \A r \in Rounds :
        /\ \A url \in Range(call[r].rpc_urls) : ~WebSocket(url)
        /\ \A i \in 1..Len(call[r].reqs) : ~WebSocket(call[r].reqs[i].url)

\* ------------------------------------------------------------------------
\* Stable comparison key: properties
\* ------------------------------------------------------------------------
\* two JSON values are equal up to the order of object members, at any depth
RECURSIVE JsonEquiv(_, _)
JsonEquiv(v, w) ==
    CASE v.t # w.t -> FALSE
      [] v.t = "Array" ->
           /\ Len(v.a) = Len(w.a)
           /\ \A i \in 1..Len(v.a) : JsonEquiv(v.a[i], w.a[i])
      [] v.t = "Object" ->
           /\ Len(v.members) = Len(w.members)
           /\ \A i \in 1..Len(v.members) :
                 \E j \in 1..Len(w.members) :
                    /\ v.members[i][1] = w.members[j][1]
                    /\ JsonEquiv(v.members[i][2], w.members[j][2])
      [] OTHER -> v = w

\* C29: two responses folded into a tally that differ only in the order of
\* object members, at any depth, have the same stable key and are counted
\* under it together; two arrays that differ otherwise, as by the order of
\* their elements, have different keys; the key of a string is the string.
C29_StableKey ==
    \A r \in Rounds :
        LET c == call[r] IN
        \A i, j \in 1..Len(c.results) :
            LET v == c.results[i]
                w == c.results[j]
            IN  /\ JsonEquiv(v, w) =>
                      /\ stable_string(v) = stable_string(w)
                      /\ c.counts[stable_string(v)] >=
                            Cardinality({k \in 1..Len(c.results) :
                                           JsonEquiv(c.results[k], v)})
                /\ (v.t = "Array" /\ w.t = "Array" /\ ~JsonEquiv(v, w)) =>
                      stable_string(v) # stable_string(w)
                /\ v.t = "String" => stable_string(v) = v.s
\* two responses that differ in member order at both levels were counted
\* under one key
C29_Witness ==
    \E r \in Rounds :
        LET c == call[r] IN
        /\ Len(c.results) = 2
        /\ c.results[1].t = "Object" /\ c.results[2].t = "Object"
        /\ c.results[1].members[1][1] = "b" /\ c.results[2].members[1][1] # "b"
        /\ c.results[1].members[1][2].members[1][1] = "c"
        /\ c.results[2].members[2][2].members[1][1] = "a"
        /\ JsonEquiv(c.results[1], c.results[2])
        /\ Cardinality(DOMAIN c.counts) = 1

\* C39: two responses folded into a tally have the same stable key only if
\* they are equal up to the order of object members; responses of different
\* JSON types are never counted under one key.
C39_KeyInjective ==
    \A r \in Rounds :
        LET c == call[r] IN
        \A i, j \in 1..Len(c.results) :
            stable_string(c.results[i]) = stable_string(c.results[j]) =>
                JsonEquiv(c.results[i], c.results[j])

\* ------------------------------------------------------------------------
\* LatencyRecord: properties
\* ------------------------------------------------------------------------
\* C31: a LatencyRecord whose last_tested is not before the Unix epoch is
\* written without error, and reading the text back gives a record with the
\* same latency_ms and failure_count and with last_tested cut to its whole
\* second; a record from before the epoch is not written at all.
C31_RoundTrip ==
    /\ codec.pc \in {"written", "read"} =>
          (codec.json.t = "Ok" <=> codec.record.v.last_tested.secs >= 0)
    /\ codec.pc = "read" =>
          /\ codec.back.t = "Ok"
          /\ codec.back.value.latency_ms = codec.record.v.latency_ms
          /\ codec.back.value.failure_count = codec.record.v.failure_count
          /\ codec.back.value.last_tested =
                SystemTime(codec.record.v.last_tested.secs, 0)
\* a record tested past a whole second came back with its counters and
\* without the fraction of the second
C31_Witness ==
    /\ codec.pc = "read"
    /\ codec.record.v = LatencyRecord(42, SystemTime(1700000000, 999999999), 1)
    /\ codec.back = Ok(LatencyRecord(42, SystemTime(1700000000, 0), 1))

\* ------------------------------------------------------------------------
\* Termination
\* ------------------------------------------------------------------------
\* C19: every call of consensus, bft_consensus and try_proxy_request that
\* has started eventually has its result, a value or one error, whatever the
\* configuration and whatever the endpoints do.
CallsPending ==
    (\E r \in Rounds : call[r].pc \notin {"idle", "done"})
        \/ proxy.pc \notin {"idle", "done"}
C19_EveryCallReturns == CallsPending ~> ~CallsPending
=============================================================================
